---- MODULE Spec2Model ----
(***************************************************************************)
(* Model of the SSP document publishing pipeline's parsing core:           *)
(*   scripts/ssp_pipeline/parsers/pandoc_ast.py   (Pandoc JSON dispatcher) *)
(*   scripts/ssp_pipeline/parsers/tables.py       (table extractor)        *)
(*   scripts/ssp_pipeline/parsers/wikilinks.py    (wikilink resolver)      *)
(*   scripts/ssp_pipeline/utils/file_ops.py       (asset resolver)         *)
(*   scripts/scribus_pipeline_adv_v3.py           (DocBook build_blocks)   *)
(*                                                                         *)
(* Text is a sequence of one-character strings.  Python's None is the      *)
(* empty tuple and a present optional value x is <<x>>.  A raised          *)
(* exception is a record [kind |-> "raise", exc |-> <exception class>].    *)
(***************************************************************************)
EXTENDS Integers, Sequences, FiniteSets, TLC

VARIABLES
    wl_raw,     \* parse_wikilink: the argument link_text
    wl_out,     \* parse_wikilink: Pending, or what the call returned / raised
    as_name,    \* resolve_asset_path: the argument relative_path
    as_fs,      \* resolve_asset_path: what exists under base_dir/assets/<type>
    as_i,       \* resolve_asset_path: index of the current search_dir (1..4, 5 past the end)
    as_pc,      \* resolve_asset_path: "direct", "rglob" or "done"
    as_out,     \* resolve_asset_path: Pending, the returned path or the raise
    wr_target,  \* resolve_wikilink_target: the argument target
    wr_fmt,     \* resolve_wikilink_target: the argument output_format
    wr_fs,      \* resolve_wikilink_target: what exists under published/<format>
    wr_dir,     \* resolve_wikilink_target: whether published/<format> exists
    wr_pc,      \* resolve_wikilink_target: "start", "exact", "glob", "rglob", "done"
    wr_out,     \* resolve_wikilink_target: Pending, the returned path or the raise
    wr_log,     \* resolve_wikilink_target: the logger calls made, in order
    cd_node,    \* detect_callout: the argument paragraph_data
    cd_out,     \* detect_callout: Pending, or the Optional[Callout] returned
    tb_node,    \* parse_table_element: the argument table_data
    tb_out,     \* parse_table_element: Pending, or the Optional[Table] returned
    tb_log,     \* parse_table_element: the logger calls made, in order
    pj_file,    \* parse_pandoc_json: the file at json_path: "missing", "malformed", "ok"
    pj_root,    \* parse_pandoc_json: ast_data, the deserialized root of the file
    pj_pc,      \* parse_pandoc_json: "load", "validate", "walk", "done"
    pj_doc,     \* parse_pandoc_json: ast_data["blocks"], the top-level nodes
    pj_i,       \* parse_pandoc_json: index of the next top-level node
    pj_blocks,  \* parse_pandoc_json: the list blocks
    pj_log,     \* parse_pandoc_json: the tags logged as unsupported, in order
    pj_out,     \* parse_pandoc_json: Pending, or the returned block list
    db_root,    \* build_blocks: the argument root, the DocBook root element
    db_ns,      \* build_blocks: whether the root tag carries a namespace
    db_pc,      \* build_blocks: "title", "preface", "sections", "fallback", "return", "done"
    db_i,       \* build_blocks: index of the next child / top-level section
    db_blocks,  \* build_blocks: the list blocks
    db_out,     \* build_blocks: Pending, the returned block list or the raise
    db_log,     \* build_blocks: the diagnostics emitted (the function has no logging call)
    rl_text,    \* resolve_wikilink: the argument wikilink_text
    rl_wikilink, \* resolve_wikilink: the Wikilink object parse_wikilink made, or None
    rl_pc,      \* resolve_wikilink: "parse", "resolve", "done"
    rl_out,     \* resolve_wikilink: Pending, the returned Wikilink or the raise
    il_elems,   \* extract_inline_text: the argument inline_elements
    il_out,     \* extract_inline_text: Pending, the returned text or the raise
    tp_doc,     \* two parse calls: the document of each call
    tp_pc,      \* two parse calls: each call's position
    tp_i,       \* two parse calls: index of each call's next node
    tp_blocks,  \* two parse calls: the list blocks of each call
    tp_out,     \* two parse calls: Pending or each call's result
    tp_log,     \* the logging sink the two calls share
    im_call,    \* image parsers: "element" (parse_image_element) or "obsidian"
    im_arg,     \* image parsers: the argument image_data or wikilink_text
    im_pc,      \* image parsers: "start", "resolve" or "done"
    im_out,     \* image parsers: Pending, the returned Image or None, or the raise
    im_log,     \* image parsers: the warnings logged
    rp_doc,     \* run_pipeline, two runs: the doc_id of each run
    rp_pc,      \* run_pipeline, two runs: the step each run is at
    rp_todo,    \* cleanup_temp_files: the matches each run has still to unlink
    rp_tmp,     \* the files /tmp/{name}_ast.json that exist, by name
    rp_out,     \* run_pipeline, two runs: Pending, the return or the raise
    rp_log,     \* the warnings logged
    wt_md,      \* MarkdownChangeHandler: self.markdown_path
    wt_debounce, \* MarkdownChangeHandler: self.debounce_seconds
    wt_last,    \* MarkdownChangeHandler: self.last_rebuild_time
    wt_now,     \* the clock time.time() reads
    wt_queue,   \* the events the observer has still to hand to on_modified
    wt_pc,      \* on_modified: "idle", or "building" inside run_pipeline
    wt_current, \* on_modified: current_time of the call in progress
    wt_res,     \* on_modified: how the last call ended
    wt_starts,  \* history: the starts of the last two successful rebuilds
    of_version, \* handle_overflow: "v2" or "v3", the script it is taken from
    of_setup,   \* handle_overflow: what the document and the layout hold
    of_pc,      \* handle_overflow: "start", "check", "grow" or "done"
    of_n,       \* handle_overflow: n (v3), safety_counter (v2)
    of_pages,   \* the renderer: scribus.pageCount()
    of_chain,   \* the renderer: the linked frames from the body frame on
    of_frames,  \* the renderer: the continuation frames createText has made
    of_last,    \* handle_overflow: last_frame
    of_head,    \* the renderer: the body frame overflows
    of_tail,    \* the renderer: the last frame overflows
    of_first,   \* history: pageCount() when handle_overflow was called
    of_grown,   \* history: the iterations that went on to add a page
    of_out      \* handle_overflow: Pending, how it returned, or the raise

wlVars == <<wl_raw, wl_out>>

asVars == <<as_name, as_fs, as_i, as_pc, as_out>>

wrVars == <<wr_target, wr_fmt, wr_fs, wr_dir, wr_pc, wr_out, wr_log>>

cdVars == <<cd_node, cd_out>>

tbVars == <<tb_node, tb_out, tb_log>>

pjVars == <<pj_file, pj_root, pj_pc, pj_doc, pj_i, pj_blocks, pj_log, pj_out>>

dbVars == <<db_root, db_ns, db_pc, db_i, db_blocks, db_out, db_log>>

rlVars == <<rl_text, rl_wikilink, rl_pc, rl_out>>

ilVars == <<il_elems, il_out>>

tpVars == <<tp_doc, tp_pc, tp_i, tp_blocks, tp_out, tp_log>>

imVars == <<im_call, im_arg, im_pc, im_out, im_log>>

rpVars == <<rp_doc, rp_pc, rp_todo, rp_tmp, rp_out, rp_log>>

wtVars ==
    <<wt_md, wt_debounce, wt_last, wt_now, wt_queue, wt_pc, wt_current, wt_res, wt_starts>>

ofVars ==
    <<of_version, of_setup, of_pc, of_n, of_pages, of_chain, of_frames, of_last, of_head,
      of_tail, of_first, of_grown, of_out>>

lateVars == <<imVars, rpVars, wtVars, ofVars>>

vars == <<wlVars, asVars, wrVars, cdVars, tbVars, pjVars, dbVars, rlVars, ilVars, tpVars, lateVars>>

\* ------------------------------------------------------------------------
\* Bounds of the model
\* ------------------------------------------------------------------------

\* longest text between the delimiters of a raw wikilink
MaxInner == 4

\* most entries present in the modelled asset tree
MaxAssets == 2

\* most entries present in the modelled published tree
MaxPublished == 3

\* most blocks that follow the first paragraph of a blockquote
MaxQuoteRest == 1

\* most cells in a table row
MaxCols == 3

\* most rows in the bodies of a table
MaxRows == 1

\* most top-level nodes of a Pandoc document
MaxTop == 2

\* largest heading level a Header node declares (the smallest is -1)
MaxHeaderLevel == 8

\* most entries of the published tree a resolve_wikilink call runs over
MaxLinked == 2

\* longest inline sequence handed to extract_inline_text
MaxInlines == 3

\* most children of a DocBook root element
MaxDbTop == 2

\* depth of the deepest chain of nested DocBook sections
MaxNesting == 6

\* ------------------------------------------------------------------------
\* Python values and string methods
\* ------------------------------------------------------------------------

None == <<>>

Some(x) == <<x>>

Raise(exc) == [kind |-> "raise", exc |-> exc]

\* a call that has not run yet
Pending == [kind |-> "pending"]

SeqsUpTo(S, n) == UNION {[1..k -> S] : k \in 0..n}

\* the subsets of S with at most k elements
RECURSIVE SubsetsUpTo(_, _)
SubsetsUpTo(S, k) ==
    IF k = 0 THEN {{}}
    ELSE LET smaller == SubsetsUpTo(S, k - 1)
         IN  smaller \cup {T \cup {x} : T \in smaller, x \in S}

IsPrefix(p, s) == Len(p) <= Len(s) /\ SubSeq(s, 1, Len(p)) = p

\* p occurs in s as a contiguous run
Contains(s, p) ==
    \E i \in 0..(Len(s) - Len(p)) : SubSeq(s, i + 1, i + Len(p)) = p

\* str.isspace for one character
IsSpace(c) == c \in {" ", "\n"}

\* s[i:j] with 0-based Python indices already normalised to 0 <= i, j <= len
Slice(s, i, j) == IF j <= i THEN <<>> ELSE SubSeq(s, i + 1, j)

StartsWith(s, p) == Len(s) >= Len(p) /\ SubSeq(s, 1, Len(p)) = p

EndsWith(s, p) == Len(s) >= Len(p) /\ SubSeq(s, Len(s) - Len(p) + 1, Len(s)) = p

\* str.lstrip(): drop the leading whitespace
RECURSIVE LStrip(_)
LStrip(s) == IF s # <<>> /\ IsSpace(Head(s)) THEN LStrip(Tail(s)) ELSE s

\* str.rstrip(): drop the trailing whitespace
RECURSIVE RStrip(_)
RStrip(s) ==
    IF s # <<>> /\ IsSpace(s[Len(s)]) THEN RStrip(SubSeq(s, 1, Len(s) - 1)) ELSE s

\* str.strip()
Strip(s) == RStrip(LStrip(s))

\* str.find(c): 1-based position of the first c in s, 0 when there is none
FindChar(s, c) ==
    IF \E i \in 1..Len(s) : s[i] = c
    THEN CHOOSE i \in 1..Len(s) : s[i] = c /\ \A j \in 1..(i - 1) : s[j] # c
    ELSE 0

\* ------------------------------------------------------------------------
\* Pandoc AST nodes
\*
\* A node {"t": tag, "c": content} is a record with the tag t and one named
\* field per positional element of c (text: a string, inlines: a list of
\* inline nodes, blocks: a list of block nodes, ...); a node whose "c" is
\* absent has the field t only.  A JSON list is a sequence.  A character is a
\* one-character string; the two non-ASCII letters that Python's
\* re.IGNORECASE folds onto "i" are the tokens "I_dot" (U+0130) and
\* "i_nodot" (U+0131).
\* ------------------------------------------------------------------------

Str(text) == [t |-> "Str", text |-> text]

Space == [t |-> "Space"]

SoftBreak == [t |-> "SoftBreak"]

LineBreak == [t |-> "LineBreak"]

Emph(inlines) == [t |-> "Emph", inlines |-> inlines]

Strong(inlines) == [t |-> "Strong", inlines |-> inlines]

\* {"t": "Code", "c": [attrs, text]}
Code(text) == [t |-> "Code", text |-> text]

\* {"t": "Link", "c": [attrs, inlines, target]}
Link(inlines) == [t |-> "Link", inlines |-> inlines]

\* {"t": "Math", ...}: an inline the reducer does not know
Math == [t |-> "Math", text |-> <<"x">>]

Para(inlines) == [t |-> "Para", inlines |-> inlines]

Plain(inlines) == [t |-> "Plain", inlines |-> inlines]

BlockQuote(blocks) == [t |-> "BlockQuote", blocks |-> blocks]

HorizontalRule == [t |-> "HorizontalRule"]

\* node.get("c", []) of a node whose content is a list of inlines
GetInlines(node) == IF "inlines" \in DOMAIN node THEN node.inlines ELSE <<>>

\* node.get("c", []) of a node whose content is a list of blocks
GetBlocks(node) == IF "blocks" \in DOMAIN node THEN node.blocks ELSE <<>>

\* "".join(parts) for a sequence of texts
RECURSIVE Concat(_)
Concat(parts) == IF parts = <<>> THEN <<>> ELSE Head(parts) \o Concat(Tail(parts))

\* sep.join(parts)
RECURSIVE Join(_, _)
Join(sep, parts) ==
    IF parts = <<>> THEN <<>>
    ELSE IF Len(parts) = 1 THEN parts[1]
    ELSE parts[1] \o sep \o Join(sep, Tail(parts))

\* ------------------------------------------------------------------------
\* parsers/pandoc_ast.py: extract_inline_text
\* ------------------------------------------------------------------------

\* Mutant: a soft break is rendered as a space.
RECURSIVE extract_inline_text_soft_space(_)
extract_inline_text_soft_space(inline_elements) ==
    IF inline_elements = <<>> THEN <<>>
    ELSE LET elem == Head(inline_elements)
             part ==
                 CASE elem.t = "Str" -> elem.text
                   [] elem.t = "Space" -> <<" ">>
                   [] elem.t = "SoftBreak" -> <<" ">>
                   [] elem.t = "LineBreak" -> <<"\n">>
                   [] elem.t \in {"Emph", "Strong", "Strikeout", "Superscript",
                                  "Subscript"} ->
                          extract_inline_text_soft_space(elem.inlines)
                   [] elem.t = "Code" -> elem.text
                   [] elem.t \in {"Link", "Image"} ->
                          extract_inline_text_soft_space(elem.inlines)
                   [] OTHER -> <<>>
         IN  part \o extract_inline_text_soft_space(Tail(inline_elements))

\* The text extract_inline_text returns when it returns (lines 252-291).
RECURSIVE extract_inline_text(_)
extract_inline_text(inline_elements) ==
    IF inline_elements = <<>> THEN <<>>
    ELSE LET elem == Head(inline_elements)
             part ==
                 CASE elem.t = "Str" -> elem.text
                   [] elem.t = "Space" -> <<" ">>
                   [] elem.t \in {"LineBreak", "SoftBreak"} -> <<"\n">>
                   [] elem.t \in {"Emph", "Strong", "Strikeout", "Superscript",
                                  "Subscript"} -> extract_inline_text(elem.inlines)
                   [] elem.t = "Code" -> elem.text
                   [] elem.t \in {"Link", "Image"} -> extract_inline_text(elem.inlines)
                   [] OTHER -> <<>>
         IN  part \o extract_inline_text(Tail(inline_elements))

\* The exception extract_inline_text leaves with, or None: elem["c"] of a
\* Str, Code or wrapper node without "c" is a KeyError (lines 259, 271, 276,
\* 281, 286), elem["c"][1] of a Code, Link or Image node whose "c" holds the
\* attributes only (field attr) an IndexError.
RECURSIVE inline_error(_)
inline_error(inline_elements) ==
    IF inline_elements = <<>> THEN None
    ELSE LET elem == Head(inline_elements)
             here ==
                 CASE elem.t = "Str" ->
                          IF "text" \in DOMAIN elem THEN None ELSE Some("KeyError")
                   [] elem.t \in {"Emph", "Strong", "Strikeout", "Superscript",
                                  "Subscript"} ->
                          IF "inlines" \in DOMAIN elem THEN inline_error(elem.inlines)
                          ELSE Some("KeyError")
                   [] elem.t = "Code" ->
                          IF "text" \in DOMAIN elem THEN None
                          ELSE IF "attr" \in DOMAIN elem THEN Some("IndexError")
                          ELSE Some("KeyError")
                   [] elem.t \in {"Link", "Image"} ->
                          IF "inlines" \in DOMAIN elem THEN inline_error(elem.inlines)
                          ELSE IF "attr" \in DOMAIN elem THEN Some("IndexError")
                          ELSE Some("KeyError")
                   [] OTHER -> None
         IN  IF here # None THEN here ELSE inline_error(Tail(inline_elements))

\* a wrapper or image node: {"t": tag, "c": inlines} or {"t": tag, "c": [attrs, inlines, ...]}
Wrapper(tag, inlines) == [t |-> tag, inlines |-> inlines]

\* a node of the tag without its "c"
Bare(tag) == [t |-> tag]

\* a Code, Link or Image node whose "c" holds the attributes only
AttrOnly(tag) == [t |-> tag, attr |-> <<>>]

IlNodes ==
    {Str(<<"a">>), Str(<<"b">>), Space, SoftBreak, LineBreak, Code(<<"x">>), Math,
     Emph(<<Str(<<"a">>), Space>>), Strong(<<Emph(<<Str(<<"b">>)>>)>>),
     Wrapper("Strikeout", <<Str(<<"a">>)>>), Wrapper("Superscript", <<Str(<<"b">>)>>),
     Wrapper("Subscript", <<SoftBreak>>), Link(<<Str(<<"a">>), Math>>),
     Wrapper("Image", <<Str(<<"b">>)>>),
     Bare("Str"), Bare("Emph"), Bare("Code"), Bare("Link"),
     AttrOnly("Link"), AttrOnly("Image"), Emph(<<Str(<<"a">>), Bare("Str")>>)}

IlSequences == SeqsUpTo(IlNodes, MaxInlines)

\* extract_inline_text applied to il_elems
ReduceInline ==
    /\ il_out = Pending
    /\ LET error == inline_error(il_elems)
       IN  il_out' = IF error # None THEN Raise(error[1])
                     ELSE [kind |-> "return", text |-> extract_inline_text(il_elems)]
    /\ UNCHANGED <<il_elems, wlVars, asVars, wrVars, cdVars, tbVars, pjVars, dbVars,
                   rlVars, tpVars, lateVars>>

\* ------------------------------------------------------------------------
\* parsers/pandoc_ast.py: detect_callout
\* ------------------------------------------------------------------------

LowerLetters == <<"a", "b", "c", "d", "e", "f", "g", "i", "n", "o", "p", "r", "s",
                  "t", "u", "w", "x">>

UpperLetters == <<"A", "B", "C", "D", "E", "F", "G", "I", "N", "O", "P", "R", "S",
                  "T", "U", "W", "X">>

\* str.upper() of one character: U+0131 becomes "I", U+0130 stays as it is
UpperChar(ch) ==
    IF \E i \in 1..Len(LowerLetters) : LowerLetters[i] = ch
    THEN UpperLetters[CHOOSE i \in 1..Len(LowerLetters) : LowerLetters[i] = ch]
    ELSE IF ch = "i_nodot" THEN "I" ELSE ch

\* str.upper()
Upper(text) == [i \in 1..Len(text) |-> UpperChar(text[i])]

\* Mutant: the pattern is matched case-sensitively.
MatchIgnoreCase_exact(ch, pat) == ch = pat

\* re.IGNORECASE: character ch of the text against the letter pat of the pattern
MatchIgnoreCase(ch, pat) ==
    \/ UpperChar(ch) = pat
    \/ pat = "I" /\ ch = "I_dot"

\* the alternatives of the pattern, in its order
CalloutTypes ==
    << <<"W", "A", "R", "N", "I", "N", "G">>, <<"D", "A", "N", "G", "E", "R">>,
       <<"N", "O", "T", "E">>, <<"T", "I", "P">>, <<"I", "N", "F", "O">>,
       <<"C", "A", "U", "T", "I", "O", "N">> >>

\* alternative k matches at the start of text: "[!" + TYPE + "]"
MarkerMatches(text, k) ==
    LET ty == CalloutTypes[k]
    IN  /\ Len(text) >= Len(ty) + 3
        /\ text[1] = "[" /\ text[2] = "!"
        /\ \A i \in 1..Len(ty) : MatchIgnoreCase(text[2 + i], ty[i])
        /\ text[Len(ty) + 3] = "]"

\* "." of the pattern: up to, not including, the first newline
RECURSIVE UpToNewline(_)
UpToNewline(text) ==
    IF text = <<>> \/ Head(text) = "\n" THEN <<>>
    ELSE <<Head(text)>> \o UpToNewline(Tail(text))

\* Mutant: (.*) runs to the end of the text (re.DOTALL).
callout_match_dotall(text) ==
    IF \E k \in 1..Len(CalloutTypes) : MarkerMatches(text, k)
    THEN LET k == CHOOSE j \in 1..Len(CalloutTypes) : MarkerMatches(text, j)
             n == Len(CalloutTypes[k])
         IN  Some([group1 |-> SubSeq(text, 3, n + 2),
                   group2 |-> LStrip(SubSeq(text, n + 4, Len(text)))])
    ELSE None

\* re.match(r'^\[!(WARNING|DANGER|NOTE|TIP|INFO|CAUTION)\]\s*(.*)', text,
\* re.IGNORECASE): None, or the two groups
callout_match(text) ==
    IF \E k \in 1..Len(CalloutTypes) : MarkerMatches(text, k)
    THEN LET k == CHOOSE j \in 1..Len(CalloutTypes) : MarkerMatches(text, j)
             n == Len(CalloutTypes[k])
         IN  Some([group1 |-> SubSeq(text, 3, n + 2),
                   group2 |-> UpToNewline(LStrip(SubSeq(text, n + 4, Len(text))))])
    ELSE None

Callout(callout_type, content) ==
    [block_type |-> "callout", callout_type |-> callout_type, title |-> None,
     content |-> content]

\* lines 335-337: the reduced text of every Para among blocks
RECURSIVE ParaTexts(_)
ParaTexts(blocks) ==
    IF blocks = <<>> THEN <<>>
    ELSE (IF Head(blocks).t = "Para"
          THEN <<extract_inline_text(Head(blocks).inlines)>> ELSE <<>>)
         \o ParaTexts(Tail(blocks))

detect_callout(paragraph_data) ==
    IF paragraph_data.t # "BlockQuote" THEN None
    ELSE LET blocks == GetBlocks(paragraph_data)
         IN  IF blocks = <<>> THEN None
             ELSE LET first_block == blocks[1]
                  IN  IF first_block.t # "Para" THEN None
                      ELSE LET text == extract_inline_text(GetInlines(first_block))
                               match == callout_match(text)
                           IN  IF match = None THEN None
                               ELSE LET callout_type == Upper(match[1].group1)
                                        remaining_text == Strip(match[1].group2)
                                        content_parts ==
                                            (IF remaining_text # <<>>
                                             THEN <<remaining_text>> ELSE <<>>)
                                            \o ParaTexts(Tail(blocks))
                                    IN  Some(Callout(callout_type,
                                                     Join(<<"\n">>, content_parts)))

\* the marker words the modelled first lines carry
CdWords ==
    { <<"N", "O", "T", "E">>, <<"n", "o", "t", "e">>, <<"T", "i", "p">>,
      <<"w", "a", "r", "n", "i", "n", "g">>, <<"D", "A", "N", "G", "E", "R">>,
      <<"I", "n", "f", "o">>, <<"C", "a", "u", "t", "i", "o", "n">>,
      <<"N", "O", "T", "E", "S">>, <<"X">>, <<"T", "I_dot", "P">>,
      <<"t", "i_nodot", "p">> }

CdMarkers ==
    {<<Str(<<"[", "!">> \o w \o <<"]">>)>> : w \in CdWords}
        \cup {<<Str(<<"[", "!">> \o w \o <<"]", "x">>)>> : w \in {<<"N", "O", "T", "E">>}}
        \cup {<<Str(<<"[">> \o w \o <<"]">>)>> : w \in {<<"N", "O", "T", "E">>}}
        \cup {<<Space, Str(<<"[", "!">> \o w \o <<"]">>)>> : w \in {<<"T", "I", "P">>}}
        \cup {<<Strong(<<Str(<<"[", "!">> \o w \o <<"]">>)>>)>> : w \in {<<"T", "I", "P">>}}
        \cup {<<Str(<<"a">>)>>, <<>>}

CdSeparators == {<<>>, <<Space>>, <<SoftBreak>>, <<Space, LineBreak, Space>>}

CdRests ==
    {<<>>, <<Str(<<"a">>)>>, <<Str(<<"a">>), Space>>,
     <<Str(<<"a">>), SoftBreak, Str(<<"b">>)>>, <<Emph(<<Str(<<"a">>)>>), Space, Code(<<"b">>)>>}

CdFirstLines == {m \o sp \o r : m \in CdMarkers, sp \in CdSeparators, r \in CdRests}

CdFollowing == {Para(<<Str(<<"c">>)>>), Para(<<>>), Plain(<<Str(<<"d">>)>>), HorizontalRule}

CdNodes ==
    {BlockQuote(<<Para(l)>> \o rest) :
        l \in CdFirstLines, rest \in SeqsUpTo(CdFollowing, MaxQuoteRest)}
        \cup {BlockQuote(<<Plain(l)>>) : l \in CdFirstLines}
        \cup {Para(l) : l \in CdFirstLines}
        \cup {BlockQuote(<<>>), [t |-> "BlockQuote"], HorizontalRule}

\* detect_callout applied to one node
DetectCallout ==
    /\ cd_out = Pending
    /\ cd_out' = [kind |-> "return", value |-> detect_callout(cd_node)]
    /\ UNCHANGED <<cd_node, wlVars, asVars, wrVars, tbVars, pjVars, dbVars, rlVars, ilVars, tpVars, lateVars>>

CdIdle == cd_node = HorizontalRule /\ cd_out = Pending

\* ------------------------------------------------------------------------
\* parsers/tables.py
\*
\* The shapes are the tagged ones the module's docstrings give:
\*   Table     c = [attrs, caption, colspecs, table_head, table_bodies, table_foot]
\*   Caption   c = [short_caption, blocks]
\*   TableHead c = [attrs, rows]
\*   TableBody c = [attrs, row_head_columns, head_rows, body_rows]
\*   Row       c = [attrs, cells]
\*   Cell      c = [attrs, alignment, rowspan, colspan, blocks]
\* A node whose c has fewer elements than the code asks for has the field t
\* only.  JsonNull is a JSON value that is no object.
\* ------------------------------------------------------------------------

JsonNull == [json |-> "null"]

\* isinstance(x, dict)
IsDict(x) == "json" \notin DOMAIN x

\* x.get("t") of an object, "" standing for an absent tag
TagOf(x) == IF "t" \in DOMAIN x THEN x.t ELSE ""

Cell(blocks) == [t |-> "Cell", blocks |-> blocks]

Row(cells) == [t |-> "Row", cells |-> cells]

TableHead(rows) == [t |-> "TableHead", rows |-> rows]

TableBody(rows) == [t |-> "TableBody", rows |-> rows]

Caption(blocks) == [t |-> "Caption", blocks |-> blocks]

TableNode(caption, head, bodies) ==
    [t |-> "Table", caption |-> caption, head |-> head, bodies |-> bodies]

TableBlock(headers, rows, caption) ==
    [block_type |-> "table", headers |-> headers, rows |-> rows, caption |-> caption]

\* lines 213-218: the reduced text of every Para or Plain among blocks
RECURSIVE ParaPlainTexts(_)
ParaPlainTexts(blocks) ==
    IF blocks = <<>> THEN <<>>
    ELSE (IF TagOf(Head(blocks)) \in {"Para", "Plain"}
          THEN <<extract_inline_text(Head(blocks).inlines)>> ELSE <<>>)
         \o ParaPlainTexts(Tail(blocks))

extract_cell_text(cell) ==
    IF ~IsDict(cell) \/ TagOf(cell) # "Cell" THEN <<>>
    ELSE IF "blocks" \notin DOMAIN cell THEN <<>>          \* len(content) < 5
    ELSE Join(<<" ">>, ParaPlainTexts(cell.blocks))

\* Mutant: a cell that is no Cell object is left out of the row.
cell_texts_skipping(cells) ==
    LET good == SelectSeq(cells, LAMBDA x : IsDict(x) /\ TagOf(x) = "Cell")
    IN  [i \in 1..Len(good) |-> extract_cell_text(good[i])]

\* lines 138-141 and 181-184: one text per cell
cell_texts(cells) == [i \in 1..Len(cells) |-> extract_cell_text(cells[i])]

extract_caption(caption_obj) ==
    IF ~IsDict(caption_obj) THEN None
    ELSE IF TagOf(caption_obj) # "Caption" THEN None
    ELSE IF "blocks" \notin DOMAIN caption_obj THEN None   \* len(content) < 2
    ELSE LET caption_parts == ParaTexts(caption_obj.blocks)
         IN  IF caption_parts # <<>> THEN Some(Join(<<" ">>, caption_parts)) ELSE None

extract_table_headers(table_head) ==
    IF ~IsDict(table_head) \/ TagOf(table_head) # "TableHead" THEN <<>>
    ELSE IF "rows" \notin DOMAIN table_head THEN <<>>      \* len(content) < 2
    ELSE IF table_head.rows = <<>> THEN <<>>
    ELSE LET first_row == table_head.rows[1]
         IN  IF TagOf(first_row) # "Row" THEN <<>>
             ELSE IF "cells" \notin DOMAIN first_row THEN <<>>
             ELSE cell_texts(first_row.cells)

\* lines 171-186: the rows of one body
RECURSIVE body_rows_of(_)
body_rows_of(body_rows) ==
    IF body_rows = <<>> THEN <<>>
    ELSE LET row == Head(body_rows)
         IN  (IF TagOf(row) # "Row" \/ "cells" \notin DOMAIN row THEN <<>>
              ELSE <<cell_texts(row.cells)>>)
             \o body_rows_of(Tail(body_rows))

\* Mutant: only the first body of the table is read.
extract_table_rows_first_body(table_bodies) ==
    IF table_bodies = <<>> THEN <<>>
    ELSE LET tbody == Head(table_bodies)
         IN  IF ~IsDict(tbody) \/ TagOf(tbody) # "TableBody" \/ "rows" \notin DOMAIN tbody
             THEN <<>> ELSE body_rows_of(tbody.rows)

RECURSIVE extract_table_rows(_)
extract_table_rows(table_bodies) ==
    IF table_bodies = <<>> THEN <<>>
    ELSE LET tbody == Head(table_bodies)
         IN  (IF ~IsDict(tbody) \/ TagOf(tbody) # "TableBody" THEN <<>>
              ELSE IF "rows" \notin DOMAIN tbody THEN <<>>      \* len(content) < 4
              ELSE body_rows_of(tbody.rows))
             \o extract_table_rows(Tail(table_bodies))

\* lines 46-49: the content has fewer than six elements
table_too_short(table_data) == "bodies" \notin DOMAIN table_data

\* the first exception of a sequence of outcomes, or None
first_error(errors) ==
    LET raised == SelectSeq(errors, LAMBDA e : e # None)
    IN  IF raised = <<>> THEN None ELSE raised[1]

\* lines 96-98 and 214-218: block.get of a block that is no dict is an
\* AttributeError, block["c"] of a block without content a KeyError
text_blocks_error(blocks, tags) ==
    first_error([i \in 1..Len(blocks) |->
        LET block == blocks[i]
        IN  IF ~IsDict(block) THEN Some("AttributeError")
            ELSE IF TagOf(block) \notin tags THEN None
            ELSE IF "inlines" \notin DOMAIN block THEN Some("KeyError")
            ELSE inline_error(block.inlines)])

\* lines 204-218
cell_error(cell) ==
    IF ~IsDict(cell) \/ TagOf(cell) # "Cell" \/ "blocks" \notin DOMAIN cell THEN None
    ELSE text_blocks_error(cell.blocks, {"Para", "Plain"})

\* lines 129-141 and 172-184: row.get of a row that is no dict
row_error(row) ==
    IF ~IsDict(row) THEN Some("AttributeError")
    ELSE IF TagOf(row) # "Row" \/ "cells" \notin DOMAIN row THEN None
    ELSE first_error([i \in 1..Len(row.cells) |-> cell_error(row.cells[i])])

\* lines 116-141
headers_error(table_head) ==
    IF ~IsDict(table_head) \/ TagOf(table_head) # "TableHead" THEN None
    ELSE IF "rows" \notin DOMAIN table_head THEN None
    ELSE IF table_head.rows = <<>> THEN None
    ELSE row_error(table_head.rows[1])

\* lines 161-186
rows_error(table_bodies) ==
    first_error([b \in 1..Len(table_bodies) |->
        LET tbody == table_bodies[b]
        IN  IF ~IsDict(tbody) \/ TagOf(tbody) # "TableBody" THEN None
            ELSE IF "rows" \notin DOMAIN tbody THEN None
            ELSE first_error([r \in 1..Len(tbody.rows) |-> row_error(tbody.rows[r])])])

\* lines 83-98
caption_error(caption_obj) ==
    IF ~IsDict(caption_obj) \/ TagOf(caption_obj) # "Caption" THEN None
    ELSE IF "blocks" \notin DOMAIN caption_obj THEN None
    ELSE text_blocks_error(caption_obj.blocks, {"Para"})

\* lines 43-67: the exception parse_table_element leaves with, or None
table_error(table_data) ==
    IF TagOf(table_data) # "Table" \/ table_too_short(table_data) THEN None
    ELSE first_error(<<caption_error(table_data.caption),
                       headers_error(table_data.head),
                       rows_error(table_data.bodies)>>)

parse_table_element(table_data) ==
    IF TagOf(table_data) # "Table" THEN None
    ELSE IF table_too_short(table_data) THEN None
    ELSE Some(TableBlock(extract_table_headers(table_data.head),
                         extract_table_rows(table_data.bodies),
                         extract_caption(table_data.caption)))

\* the modelled cells: a Cell holding a Para and a Plain, and a non-Cell
TbCells ==
    {Cell(<<Para(<<Str(<<"y">>)>>), Plain(<<Str(<<"z">>)>>)>>),
     Plain(<<Str(<<"w">>)>>)}

TbHeaderCell == Cell(<<Plain(<<Str(<<"h">>)>>)>>)

TbBodyRows == {Row(cells) : cells \in SeqsUpTo(TbCells, MaxCols)}

\* heads: no rows, one row of 0..MaxCols cells, or that row and a second one
TbHeads ==
    {TableHead(<<>>), JsonNull}
        \cup {TableHead(<<Row([i \in 1..n |-> TbHeaderCell])>>) : n \in 0..MaxCols}
        \cup {TableHead(<<Row([i \in 1..n |-> TbHeaderCell]), Row(<<TbHeaderCell>>)>>) :
                 n \in 1..MaxCols}

\* bodies: one body of up to MaxRows rows, or two bodies of one row each
TbBodies ==
    {<<TableBody(rows)>> : rows \in SeqsUpTo(TbBodyRows, MaxRows)}
        \cup {<<TableBody(<<r1>>), TableBody(<<r2>>)>> :
                 r1 \in TbBodyRows, r2 \in {Row(<<Cell(<<Plain(<<Str(<<"x">>)>>)>>)>>)}}
        \cup {<<>>}

TbCaptions == {Caption(<<Para(<<Str(<<"c">>)>>)>>), JsonNull}

\* a row encoded as an array, a cell paragraph without content
RowArray == [json |-> "array"]

\* six-element tables with a malformed head, body, row or cell
TbMalformed ==
    {TableNode(JsonNull, TableHead(<<RowArray>>), <<>>),
     TableNode(JsonNull, TableHead(<<>>), <<TableBody(<<Row(<<TbHeaderCell>>), RowArray>>)>>),
     TableNode(JsonNull, TableHead(<<Row(<<Cell(<<Bare("Para")>>)>>)>>), <<>>),
     TableNode(JsonNull, TableHead(<<>>), <<[t |-> "TableBody"], [t |-> "Row"]>>),
     TableNode(JsonNull, TableHead(<<Row(<<>>), RowArray>>), <<TableBody(<<[t |-> "Row"]>>)>>)}

TbNodes ==
    {TableNode(JsonNull, head, bodies) : head \in TbHeads, bodies \in TbBodies}
        \cup {TableNode(cap, TableHead(<<>>), <<>>) : cap \in TbCaptions}
        \cup {[t |-> "Table"], Para(<<>>)}
        \cup TbMalformed

\* parse_table_element applied to one node
ParseTable ==
    /\ tb_out = Pending
    /\ tb_out' = IF table_error(tb_node) # None THEN Raise(table_error(tb_node)[1])
                 ELSE [kind |-> "return", value |-> parse_table_element(tb_node)]
    /\ tb_log' = IF TagOf(tb_node) = "Table" /\ table_too_short(tb_node)
                 THEN Append(tb_log, "warning") ELSE tb_log
    /\ UNCHANGED <<tb_node, wlVars, asVars, wrVars, cdVars, pjVars, dbVars, rlVars, ilVars, tpVars, lateVars>>

TbIdle == tb_node = HorizontalRule /\ tb_out = Pending /\ tb_log = <<>>

\* ------------------------------------------------------------------------
\* parsers/pandoc_ast.py: parse_block and parse_pandoc_json
\*
\*   Header      c = [level, [id, classes, kvpairs], inlines]
\*   BulletList  c = [item, ...]; an item is a list of blocks, or, in the
\*               encoding the code also accepts, a list holding that list
\*   OrderedList c = [[start, style, delim], [item, ...]]
\*   CodeBlock   c = [[id, classes, kvpairs], code]
\* ------------------------------------------------------------------------

Header(level, ident, inlines) ==
    [t |-> "Header", level |-> level, ident |-> ident, inlines |-> inlines]

\* one list item: wrapped tells whether the blocks sit in an extra list
Item(wrapped, blocks) == [wrapped |-> wrapped, blocks |-> blocks]

BulletList(items) == [t |-> "BulletList", items |-> items]

OrderedList(start, items) == [t |-> "OrderedList", start |-> start, items |-> items]

CodeBlockNode(classes, code) == [t |-> "CodeBlock", classes |-> classes, code |-> code]

Div(blocks) == [t |-> "Div", blocks |-> blocks]

Heading(level, text, id) ==
    [block_type |-> "heading", level |-> level, text |-> text, id |-> id]

Paragraph(content) == [block_type |-> "paragraph", content |-> content]

ListBlock(list_type, items, start_number) ==
    [block_type |-> "list", list_type |-> list_type, items |-> items,
     start_number |-> start_number]

CodeBlock(code, language) ==
    [block_type |-> "code", code |-> code, language |-> language, line_numbers |-> FALSE]

\* lines 191-197: the text of one list item, the Para blocks joined by a space
item_text(item_wrapper) == Join(<<" ">>, ParaTexts(item_wrapper.blocks))

\* lines 188-197 and 206-214
item_texts(item_wrappers) ==
    [i \in 1..Len(item_wrappers) |-> item_text(item_wrappers[i])]

\* the exception of the Para blocks of a list item or of a callout's further
\* blocks, or None: block["c"] of a Para without "c" is a KeyError
RECURSIVE para_blocks_error(_)
para_blocks_error(blocks) ==
    IF blocks = <<>> THEN None
    ELSE LET block == Head(blocks)
             here == IF TagOf(block) # "Para" THEN None
                     ELSE IF "inlines" \in DOMAIN block THEN inline_error(block.inlines)
                     ELSE Some("KeyError")
         IN  IF here # None THEN here ELSE para_blocks_error(Tail(blocks))

RECURSIVE items_error(_)
items_error(item_wrappers) ==
    IF item_wrappers = <<>> THEN None
    ELSE LET here == para_blocks_error(Head(item_wrappers).blocks)
         IN  IF here # None THEN here ELSE items_error(Tail(item_wrappers))

\* lines 310-337: the exception detect_callout leaves with, or None
callout_error(paragraph_data) ==
    LET blocks == GetBlocks(paragraph_data)
    IN  IF blocks = <<>> \/ TagOf(blocks[1]) # "Para" THEN None
        ELSE LET first == inline_error(GetInlines(blocks[1]))
             IN  IF first # None THEN first
                 ELSE IF callout_match(extract_inline_text(GetInlines(blocks[1]))) = None
                 THEN None
                 ELSE para_blocks_error(Tail(blocks))

\* The exception parse_block leaves with, or None: block_content[k] of a
\* content list that is absent (read as []) or too short is an IndexError
\* (lines 173-175, 203-205, 219-220); the exceptions of the reducer and of
\* parse_table_element pass through.
block_error(block_data) ==
    LET block_type == TagOf(block_data)
    IN  CASE block_type = "Header" ->
               IF {"level", "ident", "inlines"} \subseteq DOMAIN block_data
               THEN inline_error(block_data.inlines) ELSE Some("IndexError")
          [] block_type = "Para" -> inline_error(GetInlines(block_data))
          [] block_type = "BulletList" -> items_error(block_data.items)
          [] block_type = "OrderedList" ->
               IF {"start", "items"} \subseteq DOMAIN block_data
               THEN items_error(block_data.items) ELSE Some("IndexError")
          [] block_type = "CodeBlock" ->
               IF {"classes", "code"} \subseteq DOMAIN block_data
               THEN None ELSE Some("IndexError")
          [] block_type = "BlockQuote" -> callout_error(block_data)
          [] block_type = "Table" -> table_error(block_data)
          [] OTHER -> None

\* line 173 and 178: the level handed to Heading
header_level(level) == level

parse_block(block_data) ==
    LET block_type == TagOf(block_data)
    IN  CASE block_type = "Header" ->
               Some(Heading(header_level(block_data.level),
                            extract_inline_text(block_data.inlines),
                            IF block_data.ident # <<>> THEN Some(block_data.ident)
                                                       ELSE None))
          [] block_type = "Para" ->
               Some(Paragraph(extract_inline_text(GetInlines(block_data))))
          [] block_type = "BulletList" ->
               Some(ListBlock("unordered", item_texts(block_data.items), None))
          [] block_type = "OrderedList" ->
               Some(ListBlock("ordered", item_texts(block_data.items),
                              Some(block_data.start)))
          [] block_type = "CodeBlock" ->
               Some(CodeBlock(block_data.code,
                              IF block_data.classes # <<>>
                              THEN Some(block_data.classes[1]) ELSE None))
          [] block_type = "BlockQuote" -> detect_callout(block_data)
          [] block_type = "Table" -> parse_table_element(block_data)
          [] OTHER -> None

\* the modelled top-level nodes
PjA == <<Str(<<"A">>)>>

PjB == <<Str(<<"B">>)>>

PjNote == <<Str(<<"[", "!", "N", "O", "T", "E", "]">>), Space, Str(<<"A">>)>>

PjHeaders == {Header(l, <<>>, PjA) : l \in (-1)..MaxHeaderLevel}
                 \cup {Header(2, <<"i">>, <<>>)}

PjParas ==
    {Para(<<>>), Para(<<Space>>), Para(<<Math>>), Para(PjA),
     Para(<<Str(<<"A">>), Space, Emph(PjB)>>)}

PjLists ==
    {BulletList(<<Item(FALSE, <<Para(PjA)>>)>>),
     BulletList(<<Item(FALSE, <<Para(PjA), BulletList(<<Item(FALSE, <<Para(PjB)>>)>>)>>)>>),
     BulletList(<<Item(TRUE, <<Para(PjA), Para(PjB)>>), Item(FALSE, <<Plain(PjB)>>)>>),
     OrderedList(1, <<Item(FALSE, <<Para(PjA)>>), Item(FALSE, <<Para(PjB)>>)>>),
     OrderedList(3, <<Item(FALSE, <<Para(PjA), OrderedList(1, <<Item(FALSE, <<Para(PjB)>>)>>)>>)>>)}

PjQuotes ==
    {BlockQuote(<<Para(PjNote)>>),
     BlockQuote(<<Para(PjNote), Para(PjB)>>),
     BlockQuote(<<Para(PjA)>>),
     BlockQuote(<<Para(<<>>), Para(PjB)>>),
     BlockQuote(<<Para(PjA), BulletList(<<Item(FALSE, <<Para(PjB)>>)>>)>>),
     BlockQuote(<<BlockQuote(<<Para(PjB)>>)>>)}

PjOthers ==
    {CodeBlockNode(<< <<"p", "y">> >>, <<"x">>), CodeBlockNode(<<>>, <<"x">>),
     TableNode(JsonNull, TableHead(<<Row(<<TbHeaderCell>>)>>),
               <<TableBody(<<Row(<<TbHeaderCell, TbHeaderCell>>)>>)>>),
     [t |-> "Table"],
     Div(<<Para(PjA)>>), HorizontalRule}

\* nodes whose content is absent or too short
PjMalformed ==
    {Bare("Header"), [t |-> "Header", level |-> 1], Bare("OrderedList"),
     Bare("CodeBlock"), Bare("Para"), Para(<<Bare("Str")>>),
     BlockQuote(<<Para(PjNote), Bare("Para")>>)}

PjNodes ==
    PjHeaders \cup PjParas \cup PjLists \cup PjQuotes \cup PjOthers \cup PjMalformed

PjDocs == SeqsUpTo(PjNodes, MaxTop)

\* a root object {"meta": {...}, "blocks": [...]}; title is the inline list
\* of meta.title, or None
RootObject(title, blocks) == [meta |-> [title |-> title], blocks |-> blocks]

\* a root object without the "blocks" key
RootWithoutBlocks == [meta |-> [title |-> None]]

\* roots that are no objects: a JSON array, string, number, null
RootsNotObjects ==
    {[json |-> "array"], [json |-> "string"], [json |-> "number"], JsonNull}

PjTitles == {None, Some(<<Str(<<"T">>)>>)}

PjRoots ==
    {RootObject(title, blocks) : title \in PjTitles, blocks \in PjDocs}
        \cup {RootWithoutBlocks} \cup RootsNotObjects

PjFiles == {"missing", "malformed", "ok"}

\* lines 124-132: the file is opened and deserialized
ParseLoad ==
    /\ pj_pc = "load"
    /\ IF pj_file = "missing"
       THEN pj_out' = Raise("FileNotFoundError") /\ pj_pc' = "done"
       ELSE IF pj_file = "malformed"
       THEN pj_out' = Raise("JSONDecodeError") /\ pj_pc' = "done"
       ELSE pj_pc' = "validate" /\ UNCHANGED pj_out
    /\ UNCHANGED <<pj_file, pj_root, pj_doc, pj_i, pj_blocks, pj_log,
                   wlVars, asVars, wrVars, cdVars, tbVars, dbVars, rlVars, ilVars, tpVars, lateVars>>

\* Mutant: a root without "blocks" is read as an empty document.
ParseValidate_lenient ==
    /\ pj_pc = "validate"
    /\ IF ~IsDict(pj_root)
       THEN pj_out' = Raise("ValueError") /\ pj_pc' = "done" /\ UNCHANGED pj_doc
       ELSE /\ pj_doc' = IF "blocks" \in DOMAIN pj_root THEN pj_root.blocks ELSE <<>>
            /\ pj_pc' = "walk"
            /\ UNCHANGED pj_out
    /\ UNCHANGED <<pj_file, pj_root, pj_i, pj_blocks, pj_log,
                   wlVars, asVars, wrVars, cdVars, tbVars, dbVars, rlVars, ilVars, tpVars, lateVars>>

\* lines 135-139: the root must be a dict with the key "blocks"
ParseValidate ==
    /\ pj_pc = "validate"
    /\ IF ~IsDict(pj_root)
       THEN pj_out' = Raise("ValueError") /\ pj_pc' = "done" /\ UNCHANGED pj_doc
       ELSE IF "blocks" \notin DOMAIN pj_root
       THEN pj_out' = Raise("ValueError") /\ pj_pc' = "done" /\ UNCHANGED pj_doc
       ELSE /\ pj_doc' = pj_root.blocks
            /\ pj_pc' = "walk"
            /\ UNCHANGED pj_out
    /\ UNCHANGED <<pj_file, pj_root, pj_i, pj_blocks, pj_log,
                   wlVars, asVars, wrVars, cdVars, tbVars, dbVars, rlVars, ilVars, tpVars, lateVars>>

\* lines 143-150: one iteration of the loop over ast_data["blocks"]; an
\* exception of parse_block leaves the loop and the call
ParseTopLevel ==
    /\ pj_pc = "walk"
    /\ pj_i <= Len(pj_doc)
    /\ LET block_data == pj_doc[pj_i]
           error == block_error(block_data)
       IN  \/ /\ error # None
              /\ pj_out' = Raise(error[1])
              /\ pj_pc' = "done"
              /\ UNCHANGED <<pj_blocks, pj_log, pj_i>>
           \/ /\ error = None
              /\ parse_block(block_data) # None
              /\ pj_blocks' = Append(pj_blocks, parse_block(block_data)[1])
              /\ pj_i' = pj_i + 1
              /\ UNCHANGED <<pj_log, pj_out, pj_pc>>
           \/ /\ error = None
              /\ parse_block(block_data) = None
              /\ pj_log' = (IF TagOf(block_data) = "Table" /\ table_too_short(block_data)
                            THEN Append(pj_log, "Invalid Table element structure")
                            ELSE pj_log) \o <<TagOf(block_data)>>
              /\ pj_i' = pj_i + 1
              /\ UNCHANGED <<pj_blocks, pj_out, pj_pc>>
    /\ UNCHANGED <<pj_file, pj_root, pj_doc,
                   wlVars, asVars, wrVars, cdVars, tbVars, dbVars, rlVars, ilVars, tpVars, lateVars>>

\* line 152
ParseReturn ==
    /\ pj_pc = "walk"
    /\ pj_i = Len(pj_doc) + 1
    /\ pj_out' = [kind |-> "return", blocks |-> pj_blocks]
    /\ pj_pc' = "done"
    /\ UNCHANGED <<pj_file, pj_root, pj_doc, pj_i, pj_blocks, pj_log,
                   wlVars, asVars, wrVars, cdVars, tbVars, dbVars, rlVars, ilVars, tpVars, lateVars>>

PjIdle ==
    /\ pj_file = "ok" /\ pj_root = JsonNull /\ pj_pc = "done"
    /\ pj_doc = <<>> /\ pj_i = 1 /\ pj_blocks = <<>> /\ pj_log = <<>>
    /\ pj_out = [kind |-> "idle"]

\* ------------------------------------------------------------------------
\* parsers/pandoc_ast.py: parse_wikilink
\* ------------------------------------------------------------------------

Wikilink(target, display_text) ==
    [kind |-> "Wikilink", target |-> target, display_text |-> display_text]

\* Mutant: the "Wikilink missing target" check is dropped.
parse_wikilink_no_target_check(link_text) ==
    IF ~(StartsWith(link_text, <<"[", "[">>) /\ EndsWith(link_text, <<"]", "]">>))
    THEN Raise("ValueError")
    ELSE LET inner_text == Strip(Slice(link_text, 2, Len(link_text) - 2))
             bar == FindChar(inner_text, "|")
         IN  IF inner_text = <<>> THEN Raise("ValueError")
             ELSE IF bar > 0
                  THEN Wikilink(Strip(SubSeq(inner_text, 1, bar - 1)),
                                Some(Strip(SubSeq(inner_text, bar + 1, Len(inner_text)))))
                  ELSE Wikilink(inner_text, None)

\* Mutant: split on the last "|" instead of the first.
parse_wikilink_split_last(link_text) ==
    IF ~(StartsWith(link_text, <<"[", "[">>) /\ EndsWith(link_text, <<"]", "]">>))
    THEN Raise("ValueError")
    ELSE LET inner_text == Strip(Slice(link_text, 2, Len(link_text) - 2))
             bars == {i \in 1..Len(inner_text) : inner_text[i] = "|"}
             bar == IF bars = {} THEN 0 ELSE CHOOSE i \in bars : \A j \in bars : j <= i
             target == Strip(SubSeq(inner_text, 1, bar - 1))
         IN  IF inner_text = <<>> THEN Raise("ValueError")
             ELSE IF bar > 0
                  THEN IF target = <<>> THEN Raise("ValueError")
                       ELSE Wikilink(target,
                                Some(Strip(SubSeq(inner_text, bar + 1, Len(inner_text)))))
                  ELSE Wikilink(inner_text, None)

parse_wikilink(link_text) ==
    IF ~(StartsWith(link_text, <<"[", "[">>) /\ EndsWith(link_text, <<"]", "]">>))
    THEN Raise("ValueError")                          \* Invalid wikilink syntax
    ELSE LET inner_text == Strip(Slice(link_text, 2, Len(link_text) - 2))
             bar == FindChar(inner_text, "|")
             target == IF bar > 0 THEN Strip(SubSeq(inner_text, 1, bar - 1))
                                  ELSE inner_text
             display_text ==
                 IF bar > 0
                 THEN Some(Strip(SubSeq(inner_text, bar + 1, Len(inner_text))))
                 ELSE None
         IN  IF inner_text = <<>> THEN Raise("ValueError")      \* Empty wikilink
             ELSE IF target = <<>> THEN Raise("ValueError")     \* missing target
             ELSE Wikilink(target, display_text)

\* Raw wikilink texts: a prefix, a bounded inner text and a suffix, so that both
\* well-delimited and ill-delimited texts occur.
WlInnerAlphabet == {"|", " ", "a", "]"}

WlPrefixes == {<<"[", "[">>, <<"[">>, <<>>, <<"a", "[", "[">>}

WlSuffixes == {<<"]", "]">>, <<"]">>, <<>>, <<"]", "]", " ">>}

WlRaws ==
    {p \o i \o q : p \in WlPrefixes, i \in SeqsUpTo(WlInnerAlphabet, MaxInner),
                    q \in WlSuffixes}

WlIdle == wl_raw = <<>> /\ wl_out = Pending

ParseWikilink ==
    /\ wl_out = Pending
    /\ wl_out' = parse_wikilink(wl_raw)
    /\ UNCHANGED <<wl_raw, asVars, wrVars, cdVars, tbVars, pjVars, dbVars, rlVars, ilVars, tpVars, lateVars>>

\* ------------------------------------------------------------------------
\* utils/file_ops.py: resolve_asset_path
\*
\* The tree under assets_dir = base_dir/assets/<asset_type> is a set of
\* entries [path, kind]; a path is the sequence of its components relative
\* to assets_dir and kind is "file" or "dir".
\* ------------------------------------------------------------------------

AsNames == {"f", "g"}

AsSubdirs == {"s", "t"}

\* search_dirs, relative to assets_dir
\* Mutant: doc is searched before global.
search_dirs_doc_first == << <<"doc">>, <<"global">>, <<"project">>, <<>> >>

search_dirs == << <<"global">>, <<"doc">>, <<"project">>, <<>> >>

AsPaths ==
    {search_dirs[i] \o <<n>> : i \in 1..4, n \in AsNames}
        \cup {search_dirs[i] \o <<d, n>> : i \in 1..4, d \in AsSubdirs, n \in AsNames}

AsEntries == [path : AsPaths, kind : {"file", "dir"}]

\* the trees: at most MaxAssets entries, one kind per path
AsTrees ==
    {T \in SubsetsUpTo(AsEntries, MaxAssets) :
        \A e1, e2 \in T : e1.path = e2.path => e1 = e2}

\* Path.exists()
as_exists(fs, path) == \E e \in fs : e.path = path

\* Path.is_file()
as_is_file(fs, path) == \E e \in fs : e.path = path /\ e.kind = "file"

\* Mutant: only the direct children of the directory are matched (glob, not rglob).
as_rglob_shallow(fs, dir, name) ==
    {e.path : e \in {x \in fs : x.path = dir \o <<name>>}}

\* Path.rglob(name): every existing entry called name at any depth below dir
as_rglob(fs, dir, name) ==
    {e.path : e \in {x \in fs : /\ IsPrefix(dir, x.path)
                                /\ Len(x.path) > Len(dir)
                                /\ x.path[Len(x.path)] = name}}

ReturnPath(path) == [kind |-> "path", path |-> path]

\* Lines 56-58: the direct candidate of the current search_dir.
AssetDirect ==
    /\ as_pc = "direct" /\ as_i <= 4
    /\ LET asset_path == search_dirs[as_i] \o <<as_name>>
       IN  \/ /\ as_exists(as_fs, asset_path)
              /\ as_out' = ReturnPath(asset_path)
              /\ as_pc' = "done"
           \/ /\ ~as_exists(as_fs, asset_path)
              /\ as_pc' = "rglob"
              /\ UNCHANGED as_out
    /\ UNCHANGED <<as_name, as_fs, as_i, wlVars, wrVars, cdVars, tbVars, pjVars, dbVars, rlVars, ilVars, tpVars, lateVars>>

\* Lines 61-63: the recursive matches below the current search_dir, in the
\* order the directory walk yields them; the first that is a file is returned.
AssetRglob ==
    /\ as_pc = "rglob"
    /\ LET files == {m \in as_rglob(as_fs, search_dirs[as_i], as_name) :
                        as_is_file(as_fs, m)}
       IN  \/ /\ \E subdir_match \in files : as_out' = ReturnPath(subdir_match)
              /\ as_pc' = "done"
              /\ UNCHANGED as_i
           \/ /\ files = {}
              /\ as_i' = as_i + 1
              /\ as_pc' = "direct"
              /\ UNCHANGED as_out
    /\ UNCHANGED <<as_name, as_fs, wlVars, wrVars, cdVars, tbVars, pjVars, dbVars, rlVars, ilVars, tpVars, lateVars>>

\* Line 65: every search_dir was tried.
AssetNotFound ==
    /\ as_pc = "direct" /\ as_i = 5
    /\ as_out' = Raise("FileNotFoundError")
    /\ as_pc' = "done"
    /\ UNCHANGED <<as_name, as_fs, as_i, wlVars, wrVars, cdVars, tbVars, pjVars, dbVars, rlVars, ilVars, tpVars, lateVars>>

AsIdle ==
    /\ as_name = "f" /\ as_fs = {} /\ as_i = 1 /\ as_pc = "done" /\ as_out = Pending

\* ------------------------------------------------------------------------
\* parsers/wikilinks.py: resolve_wikilink_target
\*
\* The tree under published_dir = base_dir/published/<output_format> is a set
\* of entries [dir, name]: dir is the sequence of directories below
\* published_dir and name the file name, a sequence of characters whose last
\* element is the extension (".pdf" or ".html").
\* ------------------------------------------------------------------------

WrStems == SeqsUpTo({"a", "b"}, 2) \ {<<>>}

WrNames == {st \o <<e>> : st \in WrStems, e \in {".pdf", ".html"}}

WrEntries == [dir : {<<>>, <<"sub">>}, name : WrNames]

WrTargets == {<<"a">>, <<"a", "b">>}

WrFormats == {"pdf", "web"}

\* Mutant: every format resolves to .pdf files.
extension_always_pdf(output_format) == ".pdf"

\* Line 52
extension(output_format) == IF output_format = "pdf" THEN ".pdf" ELSE ".html"

\* fnmatch of a file name against f"{target}*{extension}"
MatchPrefixGlob(name, target, ext) ==
    /\ Len(name) >= Len(target) + 1
    /\ StartsWith(name, target)
    /\ name[Len(name)] = ext

\* fnmatch of a file name against f"*{target}*{extension}"
MatchInfixGlob(name, target, ext) ==
    /\ Len(name) >= Len(target) + 1
    /\ name[Len(name)] = ext
    /\ Contains(SubSeq(name, 1, Len(name) - 1), target)

\* Line 56-57: published_dir / f"{target}{extension}"
wr_exact_match(target, ext) == [dir |-> <<>>, name |-> target \o <<ext>>]

\* Line 62: published_dir.glob(...), the matching entries of published_dir itself
wr_glob(fs, target, ext) ==
    {e \in fs : e.dir = <<>> /\ MatchPrefixGlob(e.name, target, ext)}

\* Line 71: published_dir.rglob(...), the matching entries at any depth
wr_rglob(fs, target, ext) == {e \in fs : MatchInfixGlob(e.name, target, ext)}

\* str(p.relative_to(base_dir / "published"))
wr_relative(output_format, e) ==
    [kind |-> "path", fmt |-> output_format, dir |-> e.dir, name |-> e.name]

\* Lines 46-49
WikiDirCheck ==
    /\ wr_pc = "start"
    /\ \/ /\ ~wr_dir
          /\ wr_out' = Raise("FileNotFoundError")
          /\ wr_pc' = "done"
       \/ /\ wr_dir
          /\ wr_pc' = "exact"
          /\ UNCHANGED wr_out
    /\ UNCHANGED <<wr_target, wr_fmt, wr_fs, wr_dir, wr_log, wlVars, asVars, cdVars, tbVars, pjVars, dbVars, rlVars, ilVars, tpVars, lateVars>>

\* Lines 56-59: strategy 1, the exact file name
WikiExact ==
    /\ wr_pc = "exact"
    /\ LET exact_match == wr_exact_match(wr_target, extension(wr_fmt))
       IN  \/ /\ exact_match \in wr_fs
              /\ wr_out' = wr_relative(wr_fmt, exact_match)
              /\ wr_log' = Append(wr_log, "debug")
              /\ wr_pc' = "done"
           \/ /\ exact_match \notin wr_fs
              /\ wr_pc' = "glob"
              /\ UNCHANGED <<wr_out, wr_log>>
    /\ UNCHANGED <<wr_target, wr_fmt, wr_fs, wr_dir, wlVars, asVars, cdVars, tbVars, pjVars, dbVars, rlVars, ilVars, tpVars, lateVars>>

\* Mutant: strategy 2 is skipped.
WikiGlob_skipped ==
    /\ wr_pc = "glob"
    /\ wr_pc' = "rglob"
    /\ UNCHANGED <<wr_out, wr_log, wr_target, wr_fmt, wr_fs, wr_dir, wlVars, asVars, cdVars, tbVars, pjVars, dbVars, rlVars, ilVars, tpVars, lateVars>>

\* Lines 62-68: strategy 2, the glob in published_dir; glob_matches[0] is the
\* first entry in the order the directory listing yields them.
WikiGlob ==
    /\ wr_pc = "glob"
    /\ LET glob_matches == wr_glob(wr_fs, wr_target, extension(wr_fmt))
       IN  \/ /\ \E resolved \in glob_matches : wr_out' = wr_relative(wr_fmt, resolved)
              /\ wr_log' = IF Cardinality(glob_matches) > 1
                           THEN wr_log \o <<"warning", "debug">>
                           ELSE Append(wr_log, "debug")
              /\ wr_pc' = "done"
           \/ /\ glob_matches = {}
              /\ wr_pc' = "rglob"
              /\ UNCHANGED <<wr_out, wr_log>>
    /\ UNCHANGED <<wr_target, wr_fmt, wr_fs, wr_dir, wlVars, asVars, cdVars, tbVars, pjVars, dbVars, rlVars, ilVars, tpVars, lateVars>>

\* Lines 71-78: strategy 3, the recursive search, then the failure
WikiRecursive ==
    /\ wr_pc = "rglob"
    /\ LET recursive_matches == wr_rglob(wr_fs, wr_target, extension(wr_fmt))
       IN  \/ /\ \E resolved \in recursive_matches :
                     wr_out' = wr_relative(wr_fmt, resolved)
              /\ wr_log' = Append(wr_log, "debug")
           \/ /\ recursive_matches = {}
              /\ wr_out' = Raise("FileNotFoundError")
              /\ UNCHANGED wr_log
    /\ wr_pc' = "done"
    /\ UNCHANGED <<wr_target, wr_fmt, wr_fs, wr_dir, wlVars, asVars, cdVars, tbVars, pjVars, dbVars, rlVars, ilVars, tpVars, lateVars>>

WrIdle ==
    /\ wr_target = <<>> /\ wr_fmt = "pdf" /\ wr_fs = {} /\ wr_dir = FALSE
    /\ wr_pc = "done" /\ wr_out = Pending /\ wr_log = <<>>
\* ------------------------------------------------------------------------
\* scribus_pipeline_adv_v3.py: get_full_text and build_blocks
\*
\* An XML element is a record with its local tag, the text it holds itself
\* and its child elements in document order.  db_ns tells whether the root
\* tag carries a namespace ("{uri}article"); the elements of a namespaced
\* document all lie in that namespace.
\* ------------------------------------------------------------------------

El(tag, text, kids) == [tag |-> tag, text |-> text, kids |-> kids]

\* lines 194-197: "".join(elem.itertext())
RECURSIVE RawText(_)
RECURSIVE RawTexts(_)
RawText(elem) == elem.text \o RawTexts(elem.kids)

RawTexts(kids) == IF kids = <<>> THEN <<>> ELSE RawText(Head(kids)) \o RawTexts(Tail(kids))

\* line 199: re.sub(r"\s+", " ", raw)
RECURSIVE CollapseWs(_)
CollapseWs(s) ==
    IF s = <<>> THEN <<>>
    ELSE IF IsSpace(Head(s)) THEN <<" ">> \o CollapseWs(LStrip(Tail(s)))
    ELSE <<Head(s)>> \o CollapseWs(Tail(s))

get_full_text(elem) == Strip(CollapseWs(RawText(elem)))

\* Element.find(tag): the first direct child with that tag, or None
find(elem, tag) ==
    LET hits == SelectSeq(elem.kids, LAMBDA k : k.tag = tag)
    IN  IF hits = <<>> THEN None ELSE Some(hits[1])

\* Element.findall(tag): the direct children with that tag, in order
findall(elem, tag) == SelectSeq(elem.kids, LAMBDA k : k.tag = tag)

\* line 229: max(1, min(int(level), 6))
heading_lvl(level) ==
    LET m == IF level < 6 THEN level ELSE 6
    IN  IF m > 1 THEN m ELSE 1

\* lines 226-230
add_heading(blocks, text, level) ==
    IF text = <<>> THEN blocks
    ELSE Append(blocks, [type |-> "heading", level |-> heading_lvl(level), text |-> text])

\* Mutant: a paragraph is inserted at the front of the list.
add_paragraph_front(blocks, text) ==
    IF text = <<>> THEN blocks
    ELSE <<[type |-> "paragraph", text |-> text]>> \o blocks

\* lines 232-235
add_paragraph(blocks, text) ==
    IF text = <<>> THEN blocks
    ELSE Append(blocks, [type |-> "paragraph", text |-> text])

DigitChars == <<"0", "1", "2", "3", "4", "5", "6", "7", "8", "9">>

\* str(counter)
RECURSIVE Decimal(_)
Decimal(n) ==
    IF n < 10 THEN <<DigitChars[n + 1]>>
    ELSE Decimal(n \div 10) \o <<DigitChars[(n % 10) + 1]>>

\* line 255: "  " * indent_level
Indent(indent_level) == [i \in 1..(2 * indent_level) |-> " "]

\* lines 265-268; "BULLET" stands for U+2022
ItemPrefix(kind, counter) ==
    IF kind = "bullet" THEN <<"BULLET", " ">> ELSE Decimal(counter) \o <<".", " ">>

RECURSIVE hl_children(_, _, _, _, _)
RECURSIVE hl_items(_, _, _, _, _)
RECURSIVE handle_list(_, _, _, _)
RECURSIVE process_children(_, _, _)
RECURSIVE process_block_node(_, _, _)

\* lines 259-282: the children of one listitem; the result holds the block
\* list and the counter after them
hl_children(blocks, counter, children, kind, indent_level) ==
    IF children = <<>> THEN [blocks |-> blocks, counter |-> counter]
    ELSE LET child == Head(children)
             local == child.tag
             text  == get_full_text(child)
         IN  IF local = "para" THEN
                 IF text = <<>>
                 THEN hl_children(blocks, counter, Tail(children), kind, indent_level)
                 ELSE hl_children(
                          add_paragraph(blocks,
                              Indent(indent_level) \o ItemPrefix(kind, counter) \o text),
                          IF kind = "numbered" THEN counter + 1 ELSE counter,
                          Tail(children), kind, indent_level)
             ELSE IF local = "itemizedlist" THEN
                 hl_children(handle_list(blocks, child, "bullet", indent_level + 1),
                             counter, Tail(children), kind, indent_level)
             ELSE IF local = "orderedlist" THEN
                 hl_children(handle_list(blocks, child, "numbered", indent_level + 1),
                             counter, Tail(children), kind, indent_level)
             ELSE IF local = "blockquote" THEN
                 hl_children(process_block_node(blocks, child, indent_level),
                             counter, Tail(children), kind, indent_level)
             ELSE hl_children(blocks, counter, Tail(children), kind, indent_level)

\* line 258: for li in list_el.findall("db:listitem", ns)
hl_items(blocks, counter, items, kind, indent_level) ==
    IF items = <<>> THEN blocks
    ELSE LET r == hl_children(blocks, counter, Head(items).kids, kind, indent_level)
         IN  hl_items(r.blocks, r.counter, Tail(items), kind, indent_level)

\* lines 250-282
handle_list(blocks, list_el, kind, indent_level) ==
    hl_items(blocks, 1, findall(list_el, "listitem"), kind, indent_level)

\* lines 309-310: for child in list(node)
process_children(blocks, children, indent_level) ==
    IF children = <<>> THEN blocks
    ELSE process_children(process_block_node(blocks, Head(children), indent_level),
                          Tail(children), indent_level)

\* lines 284-313
process_block_node(blocks, node, indent_level) ==
    LET local == node.tag
    IN  IF local = "para" THEN add_paragraph(blocks, get_full_text(node))
        ELSE IF local = "itemizedlist" THEN handle_list(blocks, node, "bullet", indent_level)
        ELSE IF local = "orderedlist" THEN handle_list(blocks, node, "numbered", indent_level)
        ELSE IF local = "blockquote" THEN process_children(blocks, node.kids, indent_level)
        ELSE blocks

RECURSIVE ws_children(_, _, _)
RECURSIVE walk_section(_, _, _)

\* lines 338-350: the direct children of a section
ws_children(blocks, children, base_level) ==
    IF children = <<>> THEN blocks
    ELSE LET child == Head(children)
             local == child.tag
         IN  IF local = "title" THEN ws_children(blocks, Tail(children), base_level)
             ELSE IF local = "section" THEN
                 ws_children(walk_section(blocks, child, base_level + 1),
                             Tail(children), base_level)
             ELSE ws_children(process_block_node(blocks, child, 0),
                              Tail(children), base_level)

\* lines 329-350
walk_section(blocks, section_el, base_level) ==
    LET sec_title == find(section_el, "title")
        titled == IF sec_title # None
                  THEN add_heading(blocks, get_full_text(sec_title[1]), base_level)
                  ELSE blocks
    IN  ws_children(titled, section_el.kids, base_level)

\* the modelled DocBook elements
DbPara(text) == El("para", text, <<>>)

DbTitleEl(text) == El("title", text, <<>>)

DbItem(kids) == El("listitem", <<>>, kids)

DbList(tag, items) == El(tag, <<>>, items)

DbQuote(kids) == El("blockquote", <<>>, kids)

DbSection(kids) == El("section", <<>>, kids)

\* sections nested n deep, each with a title, the innermost with a paragraph
RECURSIVE DbNested(_)
DbNested(n) ==
    IF n = 0 THEN DbPara(<<"p">>)
    ELSE DbSection(<<DbTitleEl(<<"S">>), DbNested(n - 1)>>)

DbChildren ==
    {DbTitleEl(<<"T">>), DbTitleEl(<<" ">>),
     El("info", <<>>, <<DbTitleEl(<<"T">>)>>),
     DbPara(<<"A">>), DbPara(<<" ", "\n">>), DbPara(<<" ", "A", "\n", " ", "B">>),
     El("para", <<"A", " ">>, <<El("emphasis", <<"B">>, <<>>)>>),
     DbList("itemizedlist",
            <<DbItem(<<DbPara(<<"A">>),
                       DbList("itemizedlist", <<DbItem(<<DbPara(<<"B">>)>>)>>)>>)>>),
     DbList("orderedlist",
            <<DbItem(<<DbPara(<<"A">>), DbPara(<<" ">>), DbPara(<<"B">>),
                       DbList("orderedlist", <<DbItem(<<DbPara(<<"C">>)>>)>>)>>),
              DbItem(<<DbQuote(<<DbPara(<<"D">>)>>), DbPara(<<"E">>)>>)>>),
     DbQuote(<<DbPara(<<"A">>), DbQuote(<<DbPara(<<"B">>)>>)>>),
     DbSection(<<DbTitleEl(<<"S">>), DbPara(<<"A">>)>>),
     DbSection(<<DbPara(<<"B">>), DbTitleEl(<<" ">>)>>),
     DbNested(MaxNesting),
     El("simplesect", <<>>, <<DbPara(<<"A">>)>>)}

DbRoots == {El("article", <<>>, kids) : kids \in SeqsUpTo(DbChildren, MaxDbTop)}

\* lines 222 and 242-247: the namespace map and the document title
DbTitle ==
    /\ db_pc = "title"
    /\ IF ~db_ns
       THEN \* ns = {}: the prefix "db" of "db:title" is not bound
            /\ db_out' = Raise("SyntaxError")
            /\ db_pc' = "done"
            /\ UNCHANGED db_blocks
       ELSE /\ LET title_el == find(db_root, "title")
               IN  db_blocks' = IF title_el # None
                                THEN add_heading(db_blocks, get_full_text(title_el[1]), 1)
                                ELSE db_blocks
            /\ db_pc' = "preface"
            /\ UNCHANGED db_out
    /\ UNCHANGED <<db_root, db_ns, db_log, db_i, wlVars, asVars, wrVars, cdVars, tbVars, pjVars, rlVars, ilVars, tpVars, lateVars>>

\* lines 316-326: one child of the root before the first section
DbPreface ==
    /\ db_pc = "preface"
    /\ IF db_i > Len(db_root.kids) \/ db_root.kids[db_i].tag = "section"
       THEN /\ db_pc' = "sections"
            /\ db_i' = 1
            /\ UNCHANGED db_blocks
       ELSE /\ db_blocks' = IF db_root.kids[db_i].tag \in {"info", "title"}
                            THEN db_blocks
                            ELSE process_block_node(db_blocks, db_root.kids[db_i], 0)
            /\ db_i' = db_i + 1
            /\ UNCHANGED db_pc
    /\ UNCHANGED <<db_root, db_ns, db_log, db_out, wlVars, asVars, wrVars, cdVars, tbVars, pjVars, rlVars, ilVars, tpVars, lateVars>>

\* lines 353-355: one top-level section
DbSections ==
    /\ db_pc = "sections"
    /\ LET top_sections == findall(db_root, "section")
       IN  IF db_i <= Len(top_sections)
           THEN /\ db_blocks' = walk_section(db_blocks, top_sections[db_i], 2)
                /\ db_i' = db_i + 1
                /\ UNCHANGED db_pc
           ELSE /\ db_pc' = "fallback"
                /\ UNCHANGED <<db_blocks, db_i>>
    /\ UNCHANGED <<db_root, db_ns, db_log, db_out, wlVars, asVars, wrVars, cdVars, tbVars, pjVars, rlVars, ilVars, tpVars, lateVars>>

\* lines 358-360
DbFallback ==
    /\ db_pc = "fallback"
    /\ db_blocks' = IF db_blocks = <<>>
                    THEN process_children(db_blocks, db_root.kids, 0)
                    ELSE db_blocks
    /\ db_pc' = "return"
    /\ UNCHANGED <<db_root, db_ns, db_log, db_i, db_out, wlVars, asVars, wrVars, cdVars, tbVars, pjVars, rlVars, ilVars, tpVars, lateVars>>

\* line 362
DbReturn ==
    /\ db_pc = "return"
    /\ db_out' = [kind |-> "return", blocks |-> db_blocks]
    /\ db_pc' = "done"
    /\ UNCHANGED <<db_root, db_ns, db_log, db_i, db_blocks, wlVars, asVars, wrVars, cdVars, tbVars, pjVars, rlVars, ilVars, tpVars, lateVars>>

DbIdle ==
    /\ db_root = El("article", <<>>, <<>>) /\ db_ns = TRUE /\ db_pc = "done"
    /\ db_i = 1 /\ db_blocks = <<>> /\ db_out = Pending /\ db_log = <<>>

\* ------------------------------------------------------------------------
\* parsers/wikilinks.py: resolve_wikilink
\*
\* The call parses wikilink_text, runs resolve_wikilink_target on the parsed
\* target (the actions WikiDirCheck .. WikiRecursive above) and then either
\* stores the resolved path in the Wikilink object or logs and re-raises.
\* ------------------------------------------------------------------------

RlTexts ==
    {<<"[", "[", "a", "]", "]">>,
     <<"[", "[", "a", "b", " ", "|", " ", "x", "]", "]">>,
     <<"[", "[", "b", "]", "]">>,
     <<"[", "[", " ", "]", "]">>,
     <<"a">>}

\* the characters of a returned path string, e.g. "pdf/sub/ab.pdf"
RECURSIVE path_text_dirs(_)
path_text_dirs(dir) ==
    IF dir = <<>> THEN <<>> ELSE <<Head(dir), "/">> \o path_text_dirs(Tail(dir))

path_text(resolved_path) ==
    <<resolved_path.fmt, "/">> \o path_text_dirs(resolved_path.dir) \o resolved_path.name

\* Line 98: wikilink = parse_wikilink(wikilink_text); a ValueError leaves the call
ResolveLinkParse ==
    /\ rl_pc = "parse"
    /\ LET wikilink == parse_wikilink(rl_text)
       IN  IF wikilink.kind = "raise"
           THEN /\ rl_out' = wikilink
                /\ rl_pc' = "done"
                /\ UNCHANGED <<rl_wikilink, wr_target, wr_pc>>
           ELSE /\ rl_wikilink' = Some(wikilink)
                /\ wr_target' = wikilink.target
                /\ wr_pc' = "start"
                /\ rl_pc' = "resolve"
                /\ UNCHANGED rl_out
    /\ UNCHANGED <<rl_text, wr_fmt, wr_fs, wr_dir, wr_out, wr_log,
                   wlVars, asVars, cdVars, tbVars, pjVars, dbVars, ilVars, tpVars, lateVars>>

\* Mutant: a FileNotFoundError is swallowed and the unresolved Wikilink returned.
ResolveLinkFinish_swallowed ==
    /\ rl_pc = "resolve" /\ wr_pc = "done" /\ wr_out # Pending
    /\ IF wr_out.kind = "raise"
       THEN /\ wr_log' = Append(wr_log, "error")
            /\ rl_out' = [kind |-> "return", value |-> rl_wikilink[1]]
            /\ UNCHANGED rl_wikilink
       ELSE /\ rl_wikilink' = Some([rl_wikilink[1] EXCEPT !.target = path_text(wr_out)])
            /\ rl_out' = [kind |-> "return", value |-> rl_wikilink'[1]]
            /\ UNCHANGED wr_log
    /\ rl_pc' = "done"
    /\ UNCHANGED <<rl_text, wr_target, wr_fmt, wr_fs, wr_dir, wr_out, wr_pc,
                   wlVars, asVars, cdVars, tbVars, pjVars, dbVars, ilVars, tpVars, lateVars>>

\* Lines 101-108: wikilink.target = resolved_path and return wikilink, or
\* logger.error and raise
ResolveLinkFinish ==
    /\ rl_pc = "resolve" /\ wr_pc = "done" /\ wr_out # Pending
    /\ IF wr_out.kind = "raise"
       THEN /\ wr_log' = Append(wr_log, "error")
            /\ rl_out' = wr_out
            /\ UNCHANGED rl_wikilink
       ELSE /\ rl_wikilink' = Some([rl_wikilink[1] EXCEPT !.target = path_text(wr_out)])
            /\ rl_out' = [kind |-> "return", value |-> rl_wikilink'[1]]
            /\ UNCHANGED wr_log
    /\ rl_pc' = "done"
    /\ UNCHANGED <<rl_text, wr_target, wr_fmt, wr_fs, wr_dir, wr_out, wr_pc,
                   wlVars, asVars, cdVars, tbVars, pjVars, dbVars, ilVars, tpVars, lateVars>>

RlIdle == rl_text = <<>> /\ rl_wikilink = None /\ rl_pc = "done" /\ rl_out = Pending

IlIdle == il_elems = <<>> /\ il_out = Pending

\* ---- two parse calls running interleaved ----

MaxTpTop == 2

\* a call of parse_pandoc_json on a block list, of build_blocks on a root
PandocCall(nodes) == [kind |-> "pandoc", nodes |-> nodes]

DocBookCall(root) == [kind |-> "docbook", root |-> root]

TpNodes ==
    {Para(PjA), Div(<<Para(PjA)>>), HorizontalRule, Bare("Header")}

TpChildren ==
    {DbTitleEl(<<"T">>),
     DbList("orderedlist", <<DbItem(<<DbPara(<<"C">>)>>), DbItem(<<DbPara(<<"D">>)>>)>>),
     DbSection(<<DbTitleEl(<<"S">>), DbPara(<<"E">>)>>)}

TpCalls ==
    {PandocCall(nodes) : nodes \in SeqsUpTo(TpNodes, MaxTpTop)}
        \cup {DocBookCall(El("article", <<>>, kids)) : kids \in SeqsUpTo(TpChildren, MaxTpTop)}

\* the locals of a call when it starts
start(call) ==
    [pc |-> IF call.kind = "pandoc" THEN "walk" ELSE "title",
     i |-> 1, blocks |-> <<>>, out |-> Pending, log |-> <<>>]

\* pandoc_ast.py lines 142-152 as a function of the call's locals st
parse_pandoc_json_step(nodes, st) ==
    IF st.i > Len(nodes)
    THEN [st EXCEPT !.out = [kind |-> "return", blocks |-> st.blocks], !.pc = "done"]
    ELSE LET block_data == nodes[st.i]
             error == block_error(block_data)
         IN  IF error # None
             THEN [st EXCEPT !.out = Raise(error[1]), !.pc = "done"]
             ELSE IF parse_block(block_data) # None
             THEN [st EXCEPT !.blocks = Append(@, parse_block(block_data)[1]), !.i = @ + 1]
             ELSE [st EXCEPT !.log = Append(@, TagOf(block_data)), !.i = @ + 1]

\* scribus_pipeline_adv_v3.py lines 223-362 as a function of the call's
\* locals st, for a root in the DocBook namespace
build_blocks_step(root, st) ==
    CASE st.pc = "title" ->
           LET title_el == find(root, "title")
           IN  [st EXCEPT !.blocks = IF title_el # None
                                     THEN add_heading(@, get_full_text(title_el[1]), 1)
                                     ELSE @,
                          !.pc = "preface"]
      [] st.pc = "preface" ->
           IF st.i > Len(root.kids) \/ root.kids[st.i].tag = "section"
           THEN [st EXCEPT !.pc = "sections", !.i = 1]
           ELSE [st EXCEPT !.blocks = IF root.kids[st.i].tag \in {"info", "title"} THEN @
                                      ELSE process_block_node(@, root.kids[st.i], 0),
                           !.i = @ + 1]
      [] st.pc = "sections" ->
           IF st.i <= Len(findall(root, "section"))
           THEN [st EXCEPT !.blocks = walk_section(@, findall(root, "section")[st.i], 2),
                           !.i = @ + 1]
           ELSE [st EXCEPT !.pc = "fallback"]
      [] st.pc = "fallback" ->
           [st EXCEPT !.blocks = IF @ = <<>> THEN process_children(@, root.kids, 0) ELSE @,
                      !.pc = "return"]
      [] st.pc = "return" ->
           [st EXCEPT !.out = [kind |-> "return", blocks |-> st.blocks], !.pc = "done"]

step(call, st) ==
    IF call.kind = "pandoc" THEN parse_pandoc_json_step(call.nodes, st)
    ELSE build_blocks_step(call.root, st)

\* the result of a call that runs alone
RECURSIVE run_alone(_, _)
run_alone(call, st) == IF st.pc = "done" THEN st.out ELSE run_alone(call, step(call, st))

\* Mutant: one module-level list serves every call.
accumulator_shared(p) == 1

\* pandoc_ast.py line 142, v3 line 223: `blocks = []` is a local of the call
\* p, so each call appends to a list of its own
accumulator(p) == p

\* the locals of call p; the logging sink is the process-wide one
locals(p) ==
    [pc |-> tp_pc[p], i |-> tp_i[p], blocks |-> tp_blocks[accumulator(p)],
     out |-> tp_out[p], log |-> tp_log]

\* call p takes its next step while the other call is suspended
TpAdvance(p) ==
    LET st == step(tp_doc[p], locals(p))
    IN  /\ tp_pc[p] # "done"
        /\ tp_pc' = [tp_pc EXCEPT ![p] = st.pc]
        /\ tp_i' = [tp_i EXCEPT ![p] = st.i]
        /\ tp_blocks' = [tp_blocks EXCEPT ![accumulator(p)] = st.blocks]
        /\ tp_out' = [tp_out EXCEPT ![p] = st.out]
        /\ tp_log' = st.log
        /\ UNCHANGED <<tp_doc, wlVars, asVars, wrVars, cdVars, tbVars, pjVars, dbVars, rlVars, ilVars, lateVars>>

\* a step of a parse_pandoc_json call
TpParseStep(p) == tp_doc[p].kind = "pandoc" /\ TpAdvance(p)

\* a step of a build_blocks call
TpBuildStep(p) == tp_doc[p].kind = "docbook" /\ TpAdvance(p)

TpIdle ==
    /\ tp_doc = <<<<>>, <<>>>> /\ tp_i = <<1, 1>> /\ tp_blocks = <<<<>>, <<>>>>
    /\ tp_pc = <<"done", "done">>
    /\ tp_out = <<Pending, Pending>> /\ tp_log = <<>>

\* ------------------------------------------------------------------------
\* parsers/images.py: parse_image_element and parse_obsidian_image
\*
\*   Image  c = [[id, classes, kvpairs], alt_inlines, [target, title]]
\*
\* A target is a text; the modelled relative targets are the one-letter
\* names of AsNames, "/f" is an absolute path outside assets_dir.
\* ------------------------------------------------------------------------

ImageNode(alt, target_info) == [t |-> "Image", alt |-> alt, target_info |-> target_info]

Image(path, alt_text, caption) ==
    [block_type |-> "image", path |-> path, alt_text |-> alt_text, caption |-> caption]

ImTargets == {<<"f">>, <<"g">>, <<"/", "f">>}

ImNodes ==
    {ImageNode(alt, <<target>> \o title) :
        alt \in {<<>>, <<Str(<<"a">>)>>}, target \in ImTargets, title \in {<<>>, <<<<"c">>>>}}
        \cup {ImageNode(<<Str(<<"a">>)>>, <<>>), ImageNode(<<Bare("Str")>>, <<<<"f">>>>),
              [t |-> "Image"], Para(<<>>)}

ImTexts ==
    {<<"!", "[", "[", "f", "]", "]">>, <<"!", "[", "[", " ", "g", " ", "]", "]">>,
     <<"!", "[", "[", "/", "f", "]", "]">>, <<"[", "[", "f", "]", "]">>}

\* the trees under assets/images an image is looked up in
ImTrees == {T \in AsTrees : Cardinality(T) <= 1}

\* PurePath.is_absolute()
is_absolute(target) == target # <<>> /\ target[1] = "/"

\* str(resolved_path)
asset_str(path) ==
    IF is_absolute(path) THEN path ELSE <<"/", "base_dir", "assets", "images">> \o path

\* lines 54 and 87: target_path, filename
image_target(call, arg) ==
    IF call = "element" THEN arg.target_info[1] ELSE Strip(SubSeq(arg, 4, Len(arg) - 2))

\* lines 59 and 92: alt_text
image_alt(call, arg) ==
    IF call = "obsidian" THEN Some(image_target(call, arg))
    ELSE IF arg.alt # <<>> THEN Some(extract_inline_text(arg.alt)) ELSE None

\* lines 55 and 92: caption
image_caption(call, arg) ==
    IF call = "element" /\ Len(arg.target_info) > 1 THEN Some(arg.target_info[2]) ELSE None

\* lines 63 and 91: resolve_asset_path is entered with the target. For an
\* absolute target search_dir / target is the target itself: it is returned
\* when it exists, and otherwise search_dir.rglob(target) raises
\* NotImplementedError ("Non-relative patterns are unsupported"); whether the
\* absolute file exists is outside the tree as_fs, so either may happen.
call_resolve_asset_path(target) ==
    IF is_absolute(target)
    THEN /\ \/ as_out' = ReturnPath(target)
            \/ as_out' = Raise("NotImplementedError")
         /\ as_pc' = "done"
         /\ UNCHANGED <<as_name, as_i>>
    ELSE /\ as_name' = target[1]
         /\ as_i' = 1
         /\ as_pc' = "direct"
         /\ as_out' = Pending

\* lines 41-63: parse_image_element up to the call of resolve_asset_path
ImageElementStart ==
    /\ im_pc = "start" /\ im_call = "element"
    /\ IF TagOf(im_arg) # "Image"
       THEN /\ im_out' = [kind |-> "return", value |-> None]
            /\ im_pc' = "done"
            /\ UNCHANGED <<im_log, as_name, as_i, as_pc, as_out>>
       ELSE IF "target_info" \notin DOMAIN im_arg          \* len(content) < 3
       THEN /\ im_out' = [kind |-> "return", value |-> None]
            /\ im_log' = Append(im_log, "Invalid Image element structure")
            /\ im_pc' = "done"
            /\ UNCHANGED <<as_name, as_i, as_pc, as_out>>
       ELSE IF im_arg.target_info = <<>>                   \* target_info[0]
       THEN /\ im_out' = Raise("IndexError")
            /\ im_pc' = "done"
            /\ UNCHANGED <<im_log, as_name, as_i, as_pc, as_out>>
       ELSE IF inline_error(im_arg.alt) # None
       THEN /\ im_out' = Raise(inline_error(im_arg.alt)[1])
            /\ im_pc' = "done"
            /\ UNCHANGED <<im_log, as_name, as_i, as_pc, as_out>>
       ELSE /\ call_resolve_asset_path(image_target(im_call, im_arg))
            /\ im_pc' = "resolve"
            /\ UNCHANGED <<im_out, im_log>>
    /\ UNCHANGED <<im_call, im_arg, as_fs, wlVars, wrVars, cdVars, tbVars, pjVars, dbVars,
                   rlVars, ilVars, tpVars, rpVars, wtVars, ofVars>>

\* lines 83-91: parse_obsidian_image up to the call of resolve_asset_path
ImageObsidianStart ==
    /\ im_pc = "start" /\ im_call = "obsidian"
    /\ IF ~(IsPrefix(<<"!", "[", "[">>, im_arg)
            /\ Len(im_arg) >= 2 /\ SubSeq(im_arg, Len(im_arg) - 1, Len(im_arg)) = <<"]", "]">>)
       THEN /\ im_out' = [kind |-> "return", value |-> None]
            /\ im_log' = Append(im_log, "Invalid Obsidian image syntax")
            /\ im_pc' = "done"
            /\ UNCHANGED <<as_name, as_i, as_pc, as_out>>
       ELSE /\ call_resolve_asset_path(image_target(im_call, im_arg))
            /\ im_pc' = "resolve"
            /\ UNCHANGED <<im_out, im_log>>
    /\ UNCHANGED <<im_call, im_arg, as_fs, wlVars, wrVars, cdVars, tbVars, pjVars, dbVars,
                   rlVars, ilVars, tpVars, rpVars, wtVars, ofVars>>

\* lines 64-68 and 92-95: the Image of the resolved path, the placeholder for
\* FileNotFoundError; any other exception is not caught
ImageFinish ==
    /\ im_pc = "resolve" /\ as_pc = "done" /\ as_out # Pending
    /\ LET target_path == image_target(im_call, im_arg)
           alt_text == image_alt(im_call, im_arg)
           caption == image_caption(im_call, im_arg)
       IN  IF as_out.kind = "path"
           THEN /\ im_out' = [kind |-> "return",
                              value |-> Some(Image(asset_str(as_out.path), alt_text, caption))]
                /\ UNCHANGED im_log
           ELSE IF as_out = Raise("FileNotFoundError")
           THEN /\ im_out' = [kind |-> "return",
                              value |-> Some(Image(target_path, alt_text, caption))]
                /\ im_log' = Append(im_log, "Image not found")
           ELSE /\ im_out' = as_out
                /\ UNCHANGED im_log
    /\ im_pc' = "done"
    /\ UNCHANGED <<im_call, im_arg, wlVars, asVars, wrVars, cdVars, tbVars, pjVars, dbVars,
                   rlVars, ilVars, tpVars, rpVars, wtVars, ofVars>>

ImIdle ==
    /\ im_call = "element" /\ im_arg = HorizontalRule /\ im_pc = "done"
    /\ im_out = Pending /\ im_log = <<>>

\* ------------------------------------------------------------------------
\* pipeline.py: run_pipeline and cleanup_temp_files, two runs in one system
\*
\* Both runs use /tmp for their AST file; a file /tmp/{name}_ast.json is
\* modelled by its name, "other" being a file of that pattern that belongs
\* to neither run.
\* ------------------------------------------------------------------------

RpRuns == 1..2

RpDocIds == {"SOP-1", "SOP-2", "STD-1"}

\* the steps of run_pipeline after the doc_id is known, in order
RpSteps == <<"generate", "parse", "html", "render", "publish", "archive", "cleanup">>

\* the step after pc
rp_next(pc) ==
    LET k == CHOOSE j \in 1..Len(RpSteps) : RpSteps[j] = pc
    IN  RpSteps[k + 1]

\* what every run action leaves alone
RpOthers ==
    <<rp_doc, wlVars, asVars, wrVars, cdVars, tbVars, pjVars, dbVars, rlVars, ilVars, tpVars,
      imVars, wtVars, ofVars>>

\* lines 94-97: pandoc writes /tmp/{doc_id}_ast.json
RunGenerate(r) ==
    /\ rp_pc[r] = "generate"
    /\ rp_tmp' = rp_tmp \cup {rp_doc[r]}
    /\ rp_pc' = [rp_pc EXCEPT ![r] = "parse"]
    /\ UNCHANGED <<rp_todo, rp_out, rp_log, RpOthers>>

\* lines 99-102: parse_pandoc_json(temp_json) raises FileNotFoundError when
\* the file does not exist (pandoc_ast.py:124-125), which ends the run
RunParse(r) ==
    /\ rp_pc[r] = "parse"
    /\ IF rp_doc[r] \in rp_tmp
       THEN rp_pc' = [rp_pc EXCEPT ![r] = "html"] /\ UNCHANGED rp_out
       ELSE /\ rp_pc' = [rp_pc EXCEPT ![r] = "done"]
            /\ rp_out' = [rp_out EXCEPT ![r] = Raise("FileNotFoundError")]
    /\ UNCHANGED <<rp_todo, rp_tmp, rp_log, RpOthers>>

\* lines 104-164: the steps 6 to 9, none of which touches /tmp
RunStep(r) ==
    /\ rp_pc[r] \in {"html", "render", "publish", "archive"}
    /\ rp_pc' = [rp_pc EXCEPT ![r] = rp_next(rp_pc[r])]
    /\ UNCHANGED <<rp_todo, rp_tmp, rp_out, rp_log, RpOthers>>

\* line 245: temp_dir.glob("*_ast.json") with temp_dir = /tmp
cleanup_matches(tmp, doc_id) == tmp

\* lines 167 and 241-245: cleanup_temp_files(temp_json.parent) lists the matches
RunCleanup(r) ==
    /\ rp_pc[r] = "cleanup"
    /\ rp_todo' = [rp_todo EXCEPT ![r] = cleanup_matches(rp_tmp, rp_doc[r])]
    /\ rp_pc' = [rp_pc EXCEPT ![r] = "unlink"]
    /\ UNCHANGED <<rp_tmp, rp_out, rp_log, RpOthers>>

\* lines 245-250: one match is unlinked; a match that is gone by now is
\* logged as a warning
RunUnlink(r) ==
    /\ rp_pc[r] = "unlink" /\ rp_todo[r] # {}
    /\ \E temp_file \in rp_todo[r] :
          /\ rp_todo' = [rp_todo EXCEPT ![r] = @ \ {temp_file}]
          /\ rp_tmp' = rp_tmp \ {temp_file}
          /\ rp_log' = IF temp_file \in rp_tmp THEN rp_log
                       ELSE rp_log \cup {<<r, temp_file>>}
    /\ UNCHANGED <<rp_pc, rp_out, RpOthers>>

\* lines 169-175
RunReturn(r) ==
    /\ rp_pc[r] = "unlink" /\ rp_todo[r] = {}
    /\ rp_pc' = [rp_pc EXCEPT ![r] = "done"]
    /\ rp_out' = [rp_out EXCEPT ![r] = [kind |-> "return", doc_id |-> rp_doc[r]]]
    /\ UNCHANGED <<rp_todo, rp_tmp, rp_log, RpOthers>>

RpIdle ==
    /\ rp_doc = <<"SOP-1", "SOP-2">> /\ rp_pc = <<"done", "done">>
    /\ rp_todo = <<{}, {}>> /\ rp_tmp = {} /\ rp_out = <<Pending, Pending>> /\ rp_log = {}

\* ------------------------------------------------------------------------
\* watch.py: MarkdownChangeHandler
\*
\* Times are whole seconds. A path is the sequence of its segments below the
\* watched directory.
\* ------------------------------------------------------------------------

MaxDebounce == 2
MaxElapsed  == 4
MaxQueue    == 1

\* Path.resolve(): the "." segments are dropped
resolve(path) == SelectSeq(path, LAMBDA seg : seg # ".")

WtPaths == {<<"doc.md">>, <<".", "doc.md">>, <<"other.md">>}

\* the events the observer reports for the watched directory
WtEvents ==
    [is_directory : {FALSE}, src_path : WtPaths]
        \cup [is_directory : {TRUE}, src_path : {<<"doc.md">>}]

\* the clock never reads less than this: time.time() counts from 1970
WtClockStart == MaxDebounce + 1

\* Mutant: nothing is debounced.
is_debounced_never(elapsed, debounce_seconds) == FALSE

\* line 60
is_debounced(elapsed, debounce_seconds) == elapsed < debounce_seconds

\* what every watch action leaves alone
WtOthers ==
    <<wt_md, wt_debounce, wlVars, asVars, wrVars, cdVars, tbVars, pjVars, dbVars, rlVars,
      ilVars, tpVars, imVars, rpVars, ofVars>>

\* a second passes
WatchTick ==
    /\ wt_now < WtClockStart + MaxElapsed
    /\ wt_now' = wt_now + 1
    /\ UNCHANGED <<wt_last, wt_queue, wt_pc, wt_current, wt_res, wt_starts, WtOthers>>

\* the observer sees a modification and queues the event for the handler
WatchEvent ==
    /\ Len(wt_queue) < MaxQueue
    /\ \E event \in WtEvents : wt_queue' = Append(wt_queue, event)
    /\ UNCHANGED <<wt_last, wt_now, wt_pc, wt_current, wt_res, wt_starts, WtOthers>>

\* lines 41-74: on_modified up to the call of run_pipeline
OnModified ==
    /\ wt_pc = "idle" /\ wt_queue # <<>>
    /\ LET event == Head(wt_queue)
           event_path == resolve(event.src_path)
           current_time == wt_now
           elapsed == current_time - wt_last
       IN  /\ wt_queue' = Tail(wt_queue)
           /\ IF event.is_directory
              THEN wt_res' = "ignored" /\ UNCHANGED <<wt_pc, wt_current>>
              ELSE IF event_path # wt_md
              THEN wt_res' = "ignored" /\ UNCHANGED <<wt_pc, wt_current>>
              ELSE IF is_debounced(elapsed, wt_debounce)
              THEN wt_res' = "debounced" /\ UNCHANGED <<wt_pc, wt_current>>
              ELSE wt_pc' = "building" /\ wt_current' = current_time /\ wt_res' = "started"
    /\ UNCHANGED <<wt_last, wt_now, wt_starts, WtOthers>>

\* lines 75-76: run_pipeline returned
RebuildSucceeds ==
    /\ wt_pc = "building"
    /\ wt_last' = wt_current
    /\ wt_starts' = IF Len(wt_starts) < 2 THEN Append(wt_starts, wt_current)
                    ELSE <<wt_starts[2], wt_current>>
    /\ wt_pc' = "idle" /\ wt_res' = "ok"
    /\ UNCHANGED <<wt_now, wt_queue, wt_current, WtOthers>>

\* lines 78-80: run_pipeline raised
RebuildFails ==
    /\ wt_pc = "building"
    /\ wt_pc' = "idle" /\ wt_res' = "failed"
    /\ UNCHANGED <<wt_last, wt_now, wt_queue, wt_current, wt_starts, WtOthers>>

WtIdle ==
    /\ wt_md = <<"doc.md">> /\ wt_debounce = 0 /\ wt_last = 0 /\ wt_now = WtClockStart
    /\ wt_queue = <<>> /\ wt_pc = "idle" /\ wt_current = 0 /\ wt_res = "none"
    /\ wt_starts = <<>>

\* ------------------------------------------------------------------------
\* scribus_pipeline_adv_v3.py and scribus_pipeline_adv_v2.py: handle_overflow
\*
\* The renderer is outside the program: what textOverflows reports after a
\* layoutText, and whether linkTextFrames raises, are free choices.
\* ------------------------------------------------------------------------

\* scribus_pipeline_adv_v3.py line 605
safety_limit == 100

\* scribus_pipeline_adv_v2.py line 376
max_pages == 50

MaxStartPages == 3

OfVersions == {"v2", "v3"}

OfSetups == {"ok", "no_body", "no_page2", "no_cont"}

BodyFrame == <<"body", 0>>

ContFrame == <<"cont", 0>>

NewFrame(k) == <<"new", k>>

OfReturn(how) == [kind |-> "return", how |-> how]

\* the limit of the version's loop
of_limit(version) == IF version = "v3" THEN safety_limit ELSE max_pages

\* what every overflow action leaves alone
OfOthers ==
    <<of_version, of_setup, of_first, wlVars, asVars, wrVars, cdVars, tbVars, pjVars, dbVars,
      rlVars, ilVars, tpVars, imVars, rpVars, wtVars>>

\* layoutText(body_frame_name): the renderer lays the chain out again
layoutText == of_head' \in BOOLEAN /\ of_tail' \in BOOLEAN

\* v3 lines 562-604, v2 lines 339-371: the early returns, the link from the
\* body frame to the continuation frame and the first layout
OverflowStart ==
    /\ of_pc = "start"
    /\ \E linked \in BOOLEAN :
          IF \/ of_setup \in {"no_page2", "no_cont"}
             \/ of_setup = "no_body" /\ of_version = "v3"
             \/ of_version = "v2" /\ (of_setup = "no_body" \/ ~linked)
          THEN /\ of_pc' = "done" /\ of_out' = OfReturn("skipped")
               /\ UNCHANGED <<of_chain, of_last, of_head, of_tail>>
          ELSE /\ of_pc' = "check"
               /\ of_chain' = <<BodyFrame, ContFrame>>
               /\ of_last' = ContFrame
               /\ layoutText
               /\ UNCHANGED of_out
    /\ UNCHANGED <<of_n, of_pages, of_frames, of_grown, OfOthers>>

\* v3 line 608: while n < safety_limit
\* v2 lines 379-381: safety_counter + 1 > max_pages breaks
loop_open(version, n) == n < of_limit(version)

\* v3 lines 608-615: one check of the loop
OverflowCheckV3 ==
    /\ of_pc = "check" /\ of_version = "v3"
    /\ IF ~loop_open(of_version, of_n)
       THEN of_pc' = "done" /\ of_out' = OfReturn("limit") /\ UNCHANGED <<of_n, of_grown>>
       ELSE /\ of_n' = of_n + 1
            /\ IF ~of_tail /\ ~of_head
               THEN of_pc' = "done" /\ of_out' = OfReturn("complete") /\ UNCHANGED of_grown
               ELSE of_pc' = "grow" /\ of_grown' = of_grown + 1 /\ UNCHANGED of_out
    /\ UNCHANGED <<of_pages, of_chain, of_frames, of_last, of_head, of_tail, OfOthers>>

\* v2 lines 378-382: one check of the loop; only the head frame is asked
OverflowCheckV2 ==
    /\ of_pc = "check" /\ of_version = "v2"
    /\ IF ~of_head
       THEN of_pc' = "done" /\ of_out' = OfReturn("complete") /\ UNCHANGED <<of_n, of_grown>>
       ELSE IF ~loop_open(of_version, of_n)
       THEN of_pc' = "done" /\ of_out' = OfReturn("limit") /\ of_n' = of_n + 1
            /\ UNCHANGED of_grown
       ELSE of_pc' = "grow" /\ of_n' = of_n + 1 /\ of_grown' = of_grown + 1
            /\ UNCHANGED of_out
    /\ UNCHANGED <<of_pages, of_chain, of_frames, of_last, of_head, of_tail, OfOthers>>

\* v3 lines 617-638, v2 lines 384-401: a page and a frame are added and the
\* frame is linked after last_frame; when linkTextFrames raises, v3 logs
\* and leaves the loop, v2 lets the exception out
OverflowGrow ==
    /\ of_pc = "grow"
    /\ of_pages' = of_pages + 1
    /\ of_frames' = of_frames \cup {NewFrame(of_pages + 1)}
    /\ \E linked \in BOOLEAN :
          IF linked
          THEN /\ of_chain' = Append(of_chain, NewFrame(of_pages + 1))
               /\ of_last' = NewFrame(of_pages + 1)
               /\ layoutText
               /\ of_pc' = "check" /\ UNCHANGED of_out
          ELSE /\ of_pc' = "done"
               /\ of_out' = IF of_version = "v3" THEN OfReturn("link_failed")
                            ELSE Raise("ScribusException")
               /\ UNCHANGED <<of_chain, of_last, of_head, of_tail>>
    /\ UNCHANGED <<of_n, of_grown, OfOthers>>

OfIdle ==
    /\ of_version = "v3" /\ of_setup = "ok" /\ of_pc = "done" /\ of_n = 0 /\ of_pages = 0
    /\ of_chain = <<>> /\ of_frames = {} /\ of_last = BodyFrame /\ of_head = FALSE
    /\ of_tail = FALSE /\ of_first = 0 /\ of_grown = 0 /\ of_out = Pending

LateIdle == ImIdle /\ RpIdle /\ WtIdle /\ OfIdle

\* ------------------------------------------------------------------------
\* Specifications
\* ------------------------------------------------------------------------

\* parse_wikilink applied to one raw text
InitWikiParse ==
    /\ wl_raw \in WlRaws
    /\ wl_out = Pending
    /\ AsIdle /\ WrIdle /\ CdIdle /\ TbIdle /\ PjIdle /\ DbIdle /\ RlIdle /\ IlIdle /\ TpIdle /\ LateIdle

NextWikiParse == ParseWikilink

SpecWikiParse == InitWikiParse /\ [][NextWikiParse]_vars

\* resolve_asset_path applied to one name over one asset tree
InitAsset ==
    /\ as_name \in AsNames
    /\ as_fs \in AsTrees
    /\ as_i = 1 /\ as_pc = "direct" /\ as_out = Pending
    /\ WlIdle /\ WrIdle /\ CdIdle /\ TbIdle /\ PjIdle /\ DbIdle /\ RlIdle /\ IlIdle /\ TpIdle /\ LateIdle

NextAsset == AssetDirect \/ AssetRglob \/ AssetNotFound

SpecAsset == InitAsset /\ [][NextAsset]_vars

\* resolve_wikilink_target applied to one target over one published tree
InitWikiResolve ==
    /\ wr_target \in WrTargets
    /\ wr_fmt \in WrFormats
    /\ wr_fs \in SubsetsUpTo(WrEntries, MaxPublished)
    /\ wr_dir \in {b \in BOOLEAN : wr_fs # {} => b}
    /\ wr_pc = "start" /\ wr_out = Pending /\ wr_log = <<>>
    /\ WlIdle /\ AsIdle /\ CdIdle /\ TbIdle /\ PjIdle /\ DbIdle /\ RlIdle /\ IlIdle /\ TpIdle /\ LateIdle

NextWikiResolve == WikiDirCheck \/ WikiExact \/ WikiGlob \/ WikiRecursive

SpecWikiResolve == InitWikiResolve /\ [][NextWikiResolve]_vars

\* detect_callout applied to one node
InitCallout ==
    /\ cd_node \in CdNodes
    /\ cd_out = Pending
    /\ WlIdle /\ AsIdle /\ WrIdle /\ TbIdle /\ PjIdle /\ DbIdle /\ RlIdle /\ IlIdle /\ TpIdle /\ LateIdle

NextCallout == DetectCallout

SpecCallout == InitCallout /\ [][NextCallout]_vars

\* parse_table_element applied to one node
InitTable ==
    /\ tb_node \in TbNodes
    /\ tb_out = Pending /\ tb_log = <<>>
    /\ WlIdle /\ AsIdle /\ WrIdle /\ CdIdle /\ PjIdle /\ DbIdle /\ RlIdle /\ IlIdle /\ TpIdle /\ LateIdle

NextTable == ParseTable

SpecTable == InitTable /\ [][NextTable]_vars

\* parse_pandoc_json applied to one document
InitParse ==
    /\ pj_file \in PjFiles
    /\ pj_root \in PjRoots
    /\ pj_file # "ok" => pj_root = JsonNull   \* nothing was deserialized
    /\ pj_pc = "load"
    /\ pj_doc = <<>> /\ pj_i = 1 /\ pj_blocks = <<>> /\ pj_log = <<>> /\ pj_out = Pending
    /\ WlIdle /\ AsIdle /\ WrIdle /\ CdIdle /\ TbIdle /\ DbIdle /\ RlIdle /\ IlIdle /\ TpIdle /\ LateIdle

NextParse == ParseLoad \/ ParseValidate \/ ParseTopLevel \/ ParseReturn

SpecParse == InitParse /\ [][NextParse]_vars

\* build_blocks applied to one DocBook root
InitDocBook ==
    /\ db_root \in DbRoots
    /\ db_ns \in BOOLEAN
    /\ db_pc = "title" /\ db_i = 1 /\ db_blocks = <<>> /\ db_out = Pending /\ db_log = <<>>
    /\ WlIdle /\ AsIdle /\ WrIdle /\ CdIdle /\ TbIdle /\ PjIdle /\ RlIdle /\ IlIdle /\ TpIdle /\ LateIdle

NextDocBook == DbTitle \/ DbPreface \/ DbSections \/ DbFallback \/ DbReturn

SpecDocBook == InitDocBook /\ [][NextDocBook]_vars

\* resolve_wikilink applied to one wikilink text over one published tree
InitResolveLink ==
    /\ rl_text \in RlTexts
    /\ rl_wikilink = None /\ rl_pc = "parse" /\ rl_out = Pending
    /\ wr_target = <<>>
    /\ wr_fmt \in WrFormats
    /\ wr_fs \in SubsetsUpTo(WrEntries, MaxLinked)
    /\ wr_dir \in {b \in BOOLEAN : wr_fs # {} => b}
    /\ wr_pc = "done" /\ wr_out = Pending /\ wr_log = <<>>
    /\ WlIdle /\ AsIdle /\ CdIdle /\ TbIdle /\ PjIdle /\ DbIdle /\ IlIdle /\ TpIdle /\ LateIdle

NextResolveLink ==
    \/ ResolveLinkParse
    \/ WikiDirCheck \/ WikiExact \/ WikiGlob \/ WikiRecursive
    \/ ResolveLinkFinish

SpecResolveLink == InitResolveLink /\ [][NextResolveLink]_vars

\* extract_inline_text applied to one inline sequence
InitInline ==
    /\ il_elems \in IlSequences
    /\ il_out = Pending
    /\ WlIdle /\ AsIdle /\ WrIdle /\ CdIdle /\ TbIdle /\ PjIdle /\ DbIdle /\ RlIdle /\ TpIdle /\ LateIdle

NextInline == ReduceInline

SpecInline == InitInline /\ [][NextInline]_vars

\* two parse calls on different documents, interleaved step by step
InitTwoParses ==
    /\ tp_doc \in TpCalls \X TpCalls
    /\ tp_doc[1] # tp_doc[2]
    /\ tp_pc = <<start(tp_doc[1]).pc, start(tp_doc[2]).pc>>
    /\ tp_i = <<1, 1>> /\ tp_blocks = <<<<>>, <<>>>>
    /\ tp_out = <<Pending, Pending>> /\ tp_log = <<>>
    /\ WlIdle /\ AsIdle /\ WrIdle /\ CdIdle /\ TbIdle /\ PjIdle /\ DbIdle /\ RlIdle /\ IlIdle /\ LateIdle

NextTwoParses == \E p \in 1..2 : TpParseStep(p) \/ TpBuildStep(p)

SpecTwoParses == InitTwoParses /\ [][NextTwoParses]_vars

\* one of the image parsers applied to one argument, over a small asset tree
InitImage ==
    /\ \/ im_call = "element" /\ im_arg \in ImNodes
       \/ im_call = "obsidian" /\ im_arg \in ImTexts
    /\ im_pc = "start" /\ im_out = Pending /\ im_log = <<>>
    /\ as_fs \in ImTrees
    /\ as_name = "f" /\ as_i = 1 /\ as_pc = "done" /\ as_out = Pending
    /\ WlIdle /\ WrIdle /\ CdIdle /\ TbIdle /\ PjIdle /\ DbIdle /\ RlIdle /\ IlIdle /\ TpIdle
    /\ RpIdle /\ WtIdle /\ OfIdle

NextImage ==
    \/ ImageElementStart \/ ImageObsidianStart
    \/ AssetDirect \/ AssetRglob \/ AssetNotFound
    \/ ImageFinish

SpecImage == InitImage /\ [][NextImage]_vars

\* two run_pipeline executions for different documents, interleaved
InitPipeline ==
    /\ rp_doc \in RpDocIds \X RpDocIds
    /\ rp_doc[1] # rp_doc[2]
    /\ rp_pc = <<"generate", "generate">>
    /\ rp_todo = <<{}, {}>>
    /\ rp_tmp \in SUBSET {"other"}
    /\ rp_out = <<Pending, Pending>> /\ rp_log = {}
    /\ WlIdle /\ AsIdle /\ WrIdle /\ CdIdle /\ TbIdle /\ PjIdle /\ DbIdle /\ RlIdle /\ IlIdle
    /\ TpIdle /\ ImIdle /\ WtIdle /\ OfIdle

NextPipeline ==
    \E r \in RpRuns :
        \/ RunGenerate(r) \/ RunParse(r) \/ RunStep(r)
        \/ RunCleanup(r) \/ RunUnlink(r) \/ RunReturn(r)

SpecPipeline == InitPipeline /\ [][NextPipeline]_vars

\* a handler as __init__ leaves it (lines 36-39), and the events that follow
InitWatch ==
    /\ wt_md = resolve(<<".", "doc.md">>)
    /\ wt_debounce \in 0..MaxDebounce
    /\ wt_last = 0
    /\ wt_now = WtClockStart
    /\ wt_queue = <<>> /\ wt_pc = "idle" /\ wt_current = 0 /\ wt_res = "none"
    /\ wt_starts = <<>>
    /\ WlIdle /\ AsIdle /\ WrIdle /\ CdIdle /\ TbIdle /\ PjIdle /\ DbIdle /\ RlIdle /\ IlIdle
    /\ TpIdle /\ ImIdle /\ RpIdle /\ OfIdle

NextWatch == WatchTick \/ WatchEvent \/ OnModified \/ RebuildSucceeds \/ RebuildFails

SpecWatch == InitWatch /\ [][NextWatch]_vars

\* a call of handle_overflow of either script, on a document of two pages
\* or more
InitOverflow ==
    /\ of_version \in OfVersions
    /\ of_setup \in OfSetups
    /\ of_pc = "start" /\ of_n = 0
    /\ of_pages \in 2..MaxStartPages
    /\ of_first = of_pages
    /\ of_chain = <<BodyFrame>> /\ of_frames = {} /\ of_last = BodyFrame
    /\ of_head \in BOOLEAN /\ of_tail \in BOOLEAN
    /\ of_grown = 0 /\ of_out = Pending
    /\ WlIdle /\ AsIdle /\ WrIdle /\ CdIdle /\ TbIdle /\ PjIdle /\ DbIdle /\ RlIdle /\ IlIdle
    /\ TpIdle /\ ImIdle /\ RpIdle /\ WtIdle

NextOverflow == OverflowStart \/ OverflowCheckV3 \/ OverflowCheckV2 \/ OverflowGrow

SpecOverflow == InitOverflow /\ [][NextOverflow]_vars

\* the interpreter goes on executing handle_overflow until it returns
FairOverflow == SpecOverflow /\ WF_vars(NextOverflow)

\* ------------------------------------------------------------------------
\* Claims
\* ------------------------------------------------------------------------

\* What claim C7 expects of a raw text, written from the claim's words.
C7_Wrapped == StartsWith(wl_raw, <<"[", "[">>) /\ EndsWith(wl_raw, <<"]", "]">>)

C7_Inner == Strip(Slice(wl_raw, 2, Len(wl_raw) - 2))

C7_Bar == FindChar(C7_Inner, "|")

C7_Target ==
    IF C7_Bar = 0 THEN C7_Inner ELSE Strip(SubSeq(C7_Inner, 1, C7_Bar - 1))

C7_Display ==
    IF C7_Bar = 0 THEN None
    ELSE Some(Strip(SubSeq(C7_Inner, C7_Bar + 1, Len(C7_Inner))))

\* C7 as stated: a delimited text with a non-empty trimmed inner text always
\* yields a Wikilink (target before the first "|", display after it, None
\* without "|"); every other text fails with the syntax error.
C7_Original ==
    wl_out # Pending =>
        IF C7_Wrapped /\ C7_Inner # <<>>
        THEN wl_out = Wikilink(C7_Target, C7_Display)
        ELSE wl_out = Raise("ValueError")

\* C7 amended: the Wikilink is returned only when the trimmed target before the
\* first "|" is non-empty as well; a delimited text whose target is empty
\* (such as "[[|a]]") fails with the syntax error like an undelimited one.
C7_ParseWikilink ==
    wl_out # Pending =>
        IF C7_Wrapped /\ C7_Inner # <<>> /\ C7_Target # <<>>
        THEN wl_out = Wikilink(C7_Target, C7_Display)
        ELSE wl_out = Raise("ValueError")

\* C7 witness: a delimited text with padded target and display text was parsed.
C7_Witness ==
    /\ wl_out = Wikilink(<<"a">>, Some(<<"a">>))
    /\ wl_raw = <<"[", "[", "a", " ", "|", "a", "]", "]">>

\* The direct candidates in the order claim C8 lists them.
C8_Roots == << <<"global">>, <<"doc">>, <<"project">>, <<>> >>

C8_DirectExists(i) == \E e \in as_fs : e.path = C8_Roots[i] \o <<as_name>>

\* the files called as_name at some depth below root i (the root's own direct
\* candidate excluded)
C8_DeepFiles(i) ==
    {e.path : e \in {x \in as_fs : /\ x.kind = "file"
                                   /\ IsPrefix(C8_Roots[i], x.path)
                                   /\ Len(x.path) > Len(C8_Roots[i]) + 1
                                   /\ x.path[Len(x.path)] = as_name}}

C8_Hit(i) == C8_DirectExists(i) \/ C8_DeepFiles(i) # {}

C8_Returned == as_pc = "done" /\ as_out # Pending

\* C8 as stated: whenever one of the four direct candidates exists, the first
\* existing one in the order global, doc, project, root is what is returned; a
\* recursive match is returned only when no direct candidate exists.
C8_Original ==
    C8_Returned /\ (\E i \in 1..4 : C8_DirectExists(i)) =>
        LET k == CHOOSE i \in 1..4 :
                    C8_DirectExists(i) /\ \A j \in 1..(i - 1) : ~C8_DirectExists(j)
        IN  as_out = ReturnPath(C8_Roots[k] \o <<as_name>>)

\* C8 amended: the roots are tried in the order global, doc, project, root, and
\* at each root the direct candidate comes first and a recursive file match
\* below that same root second; the first root with either wins.  A direct
\* candidate is therefore preferred over a recursive match of its own or of a
\* later root, not over a recursive match below an earlier root.
C8_SearchOrder ==
    C8_Returned /\ (\E i \in 1..4 : C8_Hit(i)) =>
        LET k == CHOOSE i \in 1..4 : C8_Hit(i) /\ \A j \in 1..(i - 1) : ~C8_Hit(j)
        IN  IF C8_DirectExists(k)
            THEN as_out = ReturnPath(C8_Roots[k] \o <<as_name>>)
            ELSE as_out.kind = "path" /\ as_out.path \in C8_DeepFiles(k)

\* C8 witness: a file found recursively below global was returned although the
\* direct candidate of doc exists.
C8_Witness ==
    /\ C8_Returned
    /\ C8_DirectExists(2)
    /\ as_out.kind = "path"
    /\ as_out.path \in C8_DeepFiles(1)

\* the name is present as the direct candidate of doc and nowhere under global
\* or project
C9_DocOnly ==
    /\ C8_DirectExists(2)
    /\ \A e \in as_fs :
          e.path[Len(e.path)] = as_name =>
              ~IsPrefix(<<"global">>, e.path) /\ ~IsPrefix(<<"project">>, e.path)

\* C9 as stated: resolution never raises; a name present only under doc gives
\* the doc path, and an exhausted search gives a NotFound value.
C9_Original ==
    C8_Returned =>
        /\ as_out.kind # "raise"
        /\ C9_DocOnly => as_out = ReturnPath(<<"doc", as_name>>)

\* C9 amended: for a relative file name, resolution raises exactly when every
\* search strategy is exhausted, and then it raises FileNotFoundError (the
\* documented NotFound outcome, which the image parsers catch); a name present
\* only under doc gives the doc path without raising.
C9_RaisesOnlyNotFound ==
    C8_Returned =>
        /\ (as_out.kind = "raise") <=> (\A i \in 1..4 : ~C8_Hit(i))
        /\ as_out.kind = "raise" => as_out = Raise("FileNotFoundError")
        /\ as_out.kind # "raise" => as_out.kind = "path"
        /\ C9_DocOnly => as_out = ReturnPath(<<"doc", as_name>>)

\* C9 witness: the doc path was returned for a name that global and project lack.
C9_Witness ==
    /\ C8_Returned
    /\ C9_DocOnly
    /\ [path |-> <<"doc", as_name>>, kind |-> "file"] \in as_fs
    /\ as_out = ReturnPath(<<"doc", as_name>>)

\* the extension claim C10 gives each format
C10_Ext == IF wr_fmt = "pdf" THEN ".pdf" ELSE IF wr_fmt = "web" THEN ".html" ELSE "?"

C10_Exact == [dir |-> <<>>, name |-> wr_target \o <<C10_Ext>>]

C10_Glob == {e \in wr_fs : e.dir = <<>> /\ MatchPrefixGlob(e.name, wr_target, C10_Ext)}

C10_Recursive == {e \in wr_fs : MatchInfixGlob(e.name, wr_target, C10_Ext)}

C10_Rel(e) == [kind |-> "path", fmt |-> wr_fmt, dir |-> e.dir, name |-> e.name]

\* C10: the three strategies are tried in the order exact, glob in the output
\* directory, recursive search, with .pdf for pdf and .html for web, and a
\* later strategy's result is never returned when an earlier one has a match.
C10_StrategyOrder ==
    wr_pc = "done" /\ wr_out # Pending /\ wr_dir =>
        IF C10_Exact \in wr_fs THEN wr_out = C10_Rel(C10_Exact)
        ELSE IF C10_Glob # {} THEN wr_out \in {C10_Rel(e) : e \in C10_Glob}
        ELSE IF C10_Recursive # {} THEN wr_out \in {C10_Rel(e) : e \in C10_Recursive}
        ELSE wr_out.kind # "path"

\* C10 witness: a glob match of the output directory was returned for format
\* web while a file only the recursive search finds exists as well.
C10_Witness ==
    /\ wr_pc = "done"
    /\ wr_fmt = "web"
    /\ C10_Exact \notin wr_fs
    /\ wr_out \in {C10_Rel(e) : e \in C10_Glob}
    /\ C10_Recursive \ C10_Glob # {}

\* the six callout types claim C4 names
C4_Types ==
    { <<"W", "A", "R", "N", "I", "N", "G">>, <<"D", "A", "N", "G", "E", "R">>,
      <<"N", "O", "T", "E">>, <<"T", "I", "P">>, <<"I", "N", "F", "O">>,
      <<"C", "A", "U", "T", "I", "O", "N">> }

\* w equals ty in some letter case (ASCII letters)
C4_SameWord(w, ty) ==
    /\ Len(w) = Len(ty)
    /\ \A i \in 1..Len(w) :
          \/ w[i] = ty[i]
          \/ \E k \in 1..Len(UpperLetters) : UpperLetters[k] = ty[i] /\ LowerLetters[k] = w[i]

C4_FirstIsPara ==
    /\ cd_node.t = "BlockQuote"
    /\ "blocks" \in DOMAIN cd_node
    /\ cd_node.blocks # <<>>
    /\ cd_node.blocks[1].t = "Para"

\* the reduced text of the first paragraph
C4_Text == extract_inline_text(cd_node.blocks[1].inlines)

\* the text is "[!" T "]" followed by some rest, T one of the six in any case
C4_HasMarker(ty) ==
    /\ Len(C4_Text) >= Len(ty) + 3
    /\ SubSeq(C4_Text, 1, 2) = <<"[", "!">>
    /\ C4_SameWord(SubSeq(C4_Text, 3, Len(ty) + 2), ty)
    /\ C4_Text[Len(ty) + 3] = "]"

C4_Rest(ty) == SubSeq(C4_Text, Len(ty) + 4, Len(C4_Text))

\* C4 as stated: a blockquote whose first paragraph reduces to "[!T] rest",
\* T one of the six types in any letter case, yields a Callout with the
\* upper-cased T whose content starts with the trimmed rest; everything else
\* yields not-a-callout; so every callout_type is one of the six.
C4_Original ==
    cd_out # Pending =>
        /\ IF C4_FirstIsPara /\ \E ty \in C4_Types : C4_HasMarker(ty)
           THEN LET ty == CHOOSE x \in C4_Types : C4_HasMarker(x)
                IN  /\ cd_out.value # None
                    /\ cd_out.value[1].callout_type = ty
                    /\ StartsWith(cd_out.value[1].content, Strip(C4_Rest(ty)))
           ELSE cd_out.value = None
        /\ cd_out.value # None => cd_out.value[1].callout_type \in C4_Types

\* C4, the marker part alone: whether a Callout is produced, and its type.
C4_TypeOnly ==
    cd_out # Pending =>
        IF C4_FirstIsPara /\ \E ty \in C4_Types : C4_HasMarker(ty)
        THEN LET ty == CHOOSE x \in C4_Types : C4_HasMarker(x)
             IN  cd_out.value # None /\ cd_out.value[1].callout_type = ty
        ELSE cd_out.value = None

\* C4, the content part on first lines whose rest holds no line break.
C4_SingleLine ==
    cd_out # Pending /\ C4_FirstIsPara =>
        \A ty \in C4_Types :
            C4_HasMarker(ty) /\ (\A i \in 1..Len(Strip(C4_Rest(ty))) : Strip(C4_Rest(ty))[i] # "\n")
                => /\ cd_out.value # None
                   /\ StartsWith(cd_out.value[1].content, Strip(C4_Rest(ty)))

\* the well-formed body rows of the source table, in document order
RECURSIVE C6_SourceRows(_)
C6_SourceRows(bodies) ==
    IF bodies = <<>> THEN <<>>
    ELSE (IF TagOf(Head(bodies)) = "TableBody" /\ "rows" \in DOMAIN Head(bodies)
          THEN SelectSeq(Head(bodies).rows, LAMBDA r : r.t = "Row" /\ "cells" \in DOMAIN r)
          ELSE <<>>)
         \o C6_SourceRows(Tail(bodies))

C6_HeaderCells ==
    IF "rows" \in DOMAIN tb_node.head /\ tb_node.head.rows # <<>>
    THEN Len(tb_node.head.rows[1].cells) ELSE 0

C6_Parsed == tb_out.kind = "return" /\ tb_node.t = "Table" /\ "bodies" \in DOMAIN tb_node

\* C6: rows are neither padded nor truncated: emitted row i has exactly as many
\* cells as the i-th source body row, whatever the number of header cells, and
\* headers has one text per cell of the first header row.
C6_RowsKeepTheirLength ==
    C6_Parsed =>
        LET src == C6_SourceRows(tb_node.bodies)
            out == tb_out.value[1]
        IN  /\ Len(out.rows) = Len(src)
            /\ \A i \in 1..Len(src) : Len(out.rows[i]) = Len(src[i].cells)
            /\ Len(out.headers) = C6_HeaderCells

\* C6 witness: three header cells and a body row of two cells.
C6_Witness ==
    /\ C6_Parsed
    /\ Len(tb_out.value[1].headers) = 3
    /\ \E i \in 1..Len(tb_out.value[1].rows) : Len(tb_out.value[1].rows[i]) = 2

\* the top-level node the dispatcher handled last
C1_Last == pj_doc[pj_i - 1]

C1_Handled(tag) == pj_i > 1 /\ TagOf(C1_Last) = tag

C1_Clamp(l) == IF l < 1 THEN 1 ELSE IF l > 6 THEN 6 ELSE l

\* C1 as stated: the Heading emitted for a Header node of declared level L has
\* level max(1, min(L, 6)), so every emitted Heading has a level in 1..6.
C1_Original ==
    /\ C1_Handled("Header") =>
          /\ pj_blocks # <<>>
          /\ pj_blocks[Len(pj_blocks)].block_type = "heading"
          /\ pj_blocks[Len(pj_blocks)].level = C1_Clamp(C1_Last.level)
    /\ \A j \in 1..Len(pj_blocks) :
          pj_blocks[j].block_type = "heading" => pj_blocks[j].level \in 1..6

\* C2 as stated: no Paragraph block of a parse output has a text that is
\* empty after trimming.
C2_Original ==
    \A j \in 1..Len(pj_blocks) :
        pj_blocks[j].block_type = "paragraph" => Strip(pj_blocks[j].content) # <<>>

\* the text starts with "[!" T "]" for one of the six types T in any case
C3_HasMarker(text) ==
    \E ty \in C4_Types :
        /\ Len(text) >= Len(ty) + 3
        /\ SubSeq(text, 1, 2) = <<"[", "!">>
        /\ C4_SameWord(SubSeq(text, 3, Len(ty) + 2), ty)
        /\ text[Len(ty) + 3] = "]"

\* a blockquote whose first child is a paragraph without a marker
C3_PlainQuote(node) ==
    /\ TagOf(node) = "BlockQuote"
    /\ node.blocks # <<>>
    /\ node.blocks[1].t = "Para"
    /\ ~C3_HasMarker(extract_inline_text(node.blocks[1].inlines))

\* C3 as stated: for a blockquote without a marker no Callout is emitted and
\* every non-empty paragraph inside it appears in the output.
C3_Original ==
    pj_i > 1 /\ C3_PlainQuote(C1_Last) =>
        /\ Cardinality({j \in 1..Len(pj_blocks) : pj_blocks[j].block_type = "callout"})
              <= Cardinality({k \in 1..(pj_i - 1) :
                    TagOf(pj_doc[k]) = "BlockQuote" /\ ~C3_PlainQuote(pj_doc[k])})
        /\ \A k \in 1..Len(C1_Last.blocks) :
              LET child == C1_Last.blocks[k]
              IN  child.t = "Para" /\ Strip(extract_inline_text(child.inlines)) # <<>> =>
                      \E j \in 1..Len(pj_blocks) :
                          /\ pj_blocks[j].block_type = "paragraph"
                          /\ Strip(pj_blocks[j].content)
                                 = Strip(extract_inline_text(child.inlines))

\* 2*d spaces and the bullet prefix; "BULLET" stands for U+2022
C5_Prefix(d) == IF d = 0 THEN <<>> ELSE [i \in 1..(2 * d) |-> " "] \o <<"BULLET", " ">>

\* the items claim C5 expects of an unordered list at nesting depth d: each
\* item's own text, then the items of the unordered lists nested in it
RECURSIVE C5_Items(_, _)
RECURSIVE C5_Nested(_, _)
C5_Items(items, d) ==
    IF items = <<>> THEN <<>>
    ELSE <<C5_Prefix(d) \o Join(<<" ">>, ParaTexts(Head(items).blocks))>>
         \o C5_Nested(Head(items).blocks, d + 1)
         \o C5_Items(Tail(items), d)

C5_Nested(blocks, d) ==
    IF blocks = <<>> THEN <<>>
    ELSE (IF Head(blocks).t = "BulletList" THEN C5_Items(Head(blocks).items, d) ELSE <<>>)
         \o C5_Nested(Tail(blocks), d)

\* C5 as stated: a top-level unordered list gives exactly one list block whose
\* items are its own and its nested items in document order, a nested item of
\* depth d being 2*d spaces, the bullet prefix and the item text.
C5_Original ==
    C1_Handled("BulletList") =>
        /\ pj_blocks # <<>>
        /\ pj_blocks[Len(pj_blocks)].block_type = "list"
        /\ pj_blocks[Len(pj_blocks)].items = C5_Items(C1_Last.items, 0)

\* C1 on build_blocks: every heading the DocBook builder emits has a level
\* in 1..6, the title of a section nested d sections deep having min(2 + d, 6).
C1_BuildBlocksClamps ==
    \A j \in 1..Len(db_blocks) :
        db_blocks[j].type = "heading" => db_blocks[j].level \in 1..6

\* C2 on build_blocks: the DocBook builder emits no block with an empty text.
C2_BuildBlocksDropsEmpty ==
    \A j \in 1..Len(db_blocks) : Strip(db_blocks[j].text) # <<>>

\* C3 on build_blocks: of a root without sections, every non-empty paragraph
\* directly inside a top-level blockquote is in the returned blocks.
C3_BuildBlocksWalksQuotes ==
    db_out # Pending /\ db_out.kind = "return" /\ findall(db_root, "section") = <<>> =>
        \A k \in 1..Len(db_root.kids) :
            db_root.kids[k].tag = "blockquote" =>
                \A c \in 1..Len(db_root.kids[k].kids) :
                    LET child == db_root.kids[k].kids[c]
                    IN  child.tag = "para" /\ get_full_text(child) # <<>> =>
                            \E j \in 1..Len(db_out.blocks) :
                                db_out.blocks[j] = [type |-> "paragraph",
                                                    text |-> get_full_text(child)]

\* rank of a character of a published file name in the lexical order
C11_Rank(c) == IF c = "a" THEN 1 ELSE IF c = "b" THEN 2 ELSE 0

\* name x comes lexically before name y, or equals it
RECURSIVE C11_LexLeq(_, _)
C11_LexLeq(x, y) ==
    IF x = <<>> THEN TRUE
    ELSE IF y = <<>> THEN FALSE
    ELSE IF C11_Rank(Head(x)) < C11_Rank(Head(y)) THEN TRUE
    ELSE IF C11_Rank(Head(x)) > C11_Rank(Head(y)) THEN FALSE
    ELSE C11_LexLeq(Tail(x), Tail(y))

\* the glob strategy has decided the call: the directory exists, the exact
\* file is absent and the call is over
C11_GlobDecides ==
    /\ wr_pc = "done" /\ wr_dir
    /\ C10_Exact \notin wr_fs
    /\ C10_Glob # {}

\* C11 as stated: with more than one glob match the lexically first matching
\* name is returned, whatever order the directory lists them in, and a warning
\* is logged; with exactly one glob match no warning is logged.
C11_Original ==
    C11_GlobDecides =>
        /\ \E e \in C10_Glob :
              /\ wr_out = C10_Rel(e)
              /\ \A f \in C10_Glob : C11_LexLeq(SubSeq(e.name, 1, Len(e.name) - 1),
                                                SubSeq(f.name, 1, Len(f.name) - 1))
        /\ (\E i \in 1..Len(wr_log) : wr_log[i] = "warning") <=> Cardinality(C10_Glob) > 1

\* C11, the diagnostic alone: the glob strategy returns one of its matches and
\* logs a warning exactly when there is more than one.
C11_WarningOnly ==
    C11_GlobDecides =>
        /\ wr_out \in {C10_Rel(e) : e \in C10_Glob}
        /\ (\E i \in 1..Len(wr_log) : wr_log[i] = "warning") <=> Cardinality(C10_Glob) > 1

\* the wikilink text parsed and no strategy can find its target
C12_Unresolved ==
    /\ rl_pc # "parse" /\ rl_wikilink # None
    /\ \/ ~wr_dir
       \/ /\ C10_Exact \notin wr_fs
          /\ C10_Glob = {}
          /\ C10_Recursive = {}

\* C12: when the output directory is missing or none of the three strategies
\* finds the target, resolve_wikilink_target and resolve_wikilink never return
\* a path or a Wikilink: both end with the FileNotFoundError, which reaches
\* the caller of resolve_wikilink after an error is logged.
C12_NotFoundPropagates ==
    C12_Unresolved =>
        /\ wr_out \in {Pending, Raise("FileNotFoundError")}
        /\ rl_out \in {Pending, Raise("FileNotFoundError")}
        /\ wr_pc = "done" => wr_out = Raise("FileNotFoundError")
        /\ rl_pc = "done" =>
              /\ rl_out = Raise("FileNotFoundError")
              /\ wr_log # <<>> /\ wr_log[Len(wr_log)] = "error"

\* C12 witness: the directory exists and holds files, all three strategies
\* missed, and resolve_wikilink has ended with the failure.
C12_Witness ==
    /\ C12_Unresolved
    /\ wr_dir /\ wr_fs # {}
    /\ rl_pc = "done"
    /\ rl_out = Raise("FileNotFoundError")

\* C19 as stated: once a Wikilink has been produced by parse_wikilink, no
\* later step changes the value of any of its fields.
C19_Original == [][rl_wikilink # None => rl_wikilink' = rl_wikilink]_vars

\* C17 as stated: the reducer never fails; whatever the inline nodes, it
\* returns a string, a node without its content field contributing nothing.
C17_Original == il_out # Pending => il_out.kind = "return"

\* every node of the sequence carries the content field its tag requires
RECURSIVE C18_WellFormed(_)
C18_WellFormed(nodes) ==
    \A i \in 1..Len(nodes) :
        LET n == nodes[i]
        IN  /\ n.t \in {"Str", "Code"} => "text" \in DOMAIN n
            /\ n.t \in {"Emph", "Strong", "Strikeout", "Superscript", "Subscript",
                        "Link", "Image"} =>
                   "inlines" \in DOMAIN n /\ C18_WellFormed(n.inlines)

\* the reference reduction of claim C18, built from the last node backwards
RECURSIVE C18_Reference(_)
C18_Reference(nodes) ==
    IF Len(nodes) = 0 THEN <<>>
    ELSE LET n == nodes[Len(nodes)]
             own == IF n.t = "Str" \/ n.t = "Code" THEN n.text
                    ELSE IF n.t = "Space" THEN <<" ">>
                    ELSE IF n.t = "LineBreak" \/ n.t = "SoftBreak" THEN <<"\n">>
                    ELSE IF n.t \in {"Emph", "Strong", "Strikeout", "Superscript",
                                     "Subscript", "Link", "Image"}
                         THEN C18_Reference(n.inlines)
                    ELSE <<>>
         IN  C18_Reference(SubSeq(nodes, 1, Len(nodes) - 1)) \o own

\* C18: on every well-formed inline sequence the reducer returns the in-order
\* concatenation of the per-node texts of the reference.
C18_ReducerIsReference ==
    il_out # Pending /\ C18_WellFormed(il_elems) =>
        il_out = [kind |-> "return", text |-> C18_Reference(il_elems)]

\* C18 witness: [Str("a"), Space, Str("b")] has been reduced to "a b".
C18_Witness ==
    /\ il_elems = <<Str(<<"a">>), Space, Str(<<"b">>)>>
    /\ il_out = [kind |-> "return", text |-> <<"a", " ", "b">>]

\* the root is an object with a top-level block list
C13_RootWithBlocks == pj_file = "ok" /\ IsDict(pj_root) /\ "blocks" \in DOMAIN pj_root

\* C13 as stated: for a root object with a top-level block list no exception
\* leaves parse_pandoc_json, whatever the shape of the block nodes; a
\* malformed node is skipped and the walk goes on to the next node.
C13_Original == C13_RootWithBlocks => pj_out.kind # "raise"

\* the root is not an object, or it has no "blocks" key
C14_BadRoot == pj_file = "ok" /\ (~IsDict(pj_root) \/ "blocks" \notin DOMAIN pj_root)

\* C14: a root that is not a dict, or that lacks "blocks", ends the call with
\* a ValueError before any block node is examined: the walk is never entered,
\* the accumulator stays empty, nothing is logged, no sequence is returned.
C14_StructuralError ==
    C14_BadRoot =>
        /\ pj_pc # "walk"
        /\ pj_i = 1 /\ pj_blocks = <<>> /\ pj_log = <<>> /\ pj_doc = <<>>
        /\ pj_out \in {Pending, Raise("ValueError")}
        /\ pj_pc = "done" => pj_out = Raise("ValueError")

C14_Witness ==
    /\ pj_file = "ok" /\ pj_root = RootWithoutBlocks
    /\ pj_pc = "done" /\ pj_out = Raise("ValueError")

\* C14, the other shape: a root that is a JSON array
C14_WitnessArray ==
    /\ pj_file = "ok" /\ pj_root = [json |-> "array"]
    /\ pj_pc = "done" /\ pj_out = Raise("ValueError")

\* the root declares a non-empty title
C15_Titled == C13_RootWithBlocks /\ pj_root.meta.title # None

\* C15 as stated: when the document declares a non-empty title, the first
\* block of the output is a Heading of level 1 with the title's text.
C15_Original ==
    (C15_Titled /\ pj_out.kind = "return") =>
        /\ pj_out.blocks # <<>>
        /\ pj_out.blocks[1].block_type = "heading"
        /\ pj_out.blocks[1].level = 1
        /\ pj_out.blocks[1].text = extract_inline_text(pj_root.meta.title[1])

\* the tree below elem holds a paragraph with text
RECURSIVE C16_HasContent(_)
C16_HasContent(elem) ==
    \/ elem.tag = "para" /\ get_full_text(elem) # <<>>
    \/ \E k \in 1..Len(elem.kids) : C16_HasContent(elem.kids[k])

\* C16 as stated: when the tree holds a non-empty paragraph or list at any
\* depth, the output of build_blocks is non-empty, the fallback pass emitting
\* the descendants the walk over the top-level nodes did not reach.
C16_Original ==
    (db_ns /\ db_out.kind = "return" /\ C16_HasContent(db_root)) =>
        db_out.blocks # <<>>

\* C20: under every interleaving of two parse calls on different documents
\* each call ends with the result it has when it runs alone, which depends on
\* its own document only.
C20_Stateless ==
    \A p \in 1..2 :
        tp_pc[p] = "done" => tp_out[p] = run_alone(tp_doc[p], start(tp_doc[p]))

\* the two calls logged alternately, so their steps were interleaved, and
\* both returned blocks
C20_Witness ==
    /\ tp_doc = <<PandocCall(<<Div(<<Para(PjA)>>), Div(<<Para(PjA)>>)>>),
                  PandocCall(<<HorizontalRule, Para(PjA)>>)>>
    /\ tp_log = <<"Div", "HorizontalRule", "Div">>
    /\ tp_pc = <<"done", "done">>
    /\ tp_out[2] = [kind |-> "return", blocks |-> <<Paragraph(<<"A">>)>>]

\* C20, build_blocks: a DocBook call interleaved with a Pandoc call numbers
\* its ordered list from 1 and returns its own blocks only
C20_WitnessMixed ==
    /\ tp_doc[1].kind = "docbook" /\ tp_doc[2].kind = "pandoc"
    /\ tp_pc = <<"done", "done">>
    /\ tp_out[1].kind = "return" /\ Len(tp_out[1].blocks) = 2
    /\ tp_out[1].blocks[1].text = <<"1", ".", " ", "C">>
    /\ tp_log = <<"Div">>

\* the tags process_block_node, the preface loop and walk_section know
C21_KnownTags ==
    {"info", "title", "section", "para", "itemizedlist", "orderedlist", "blockquote"}

\* C21 as stated: every top-level node for which the dispatcher emits no
\* block causes a diagnostic naming the node; here for build_blocks and the
\* top-level children whose tag it does not recognize.
C21_Original ==
    (db_ns /\ db_out.kind = "return") =>
        \A k \in 1..Len(db_root.kids) :
            db_root.kids[k].tag \notin C21_KnownTags =>
                \E j \in 1..Len(db_log) : db_log[j] = db_root.kids[k].tag

\* C21, parse_pandoc_json: while the walk runs and when it returns, the blocks
\* emitted plus the tags logged as unsupported count the nodes handled so far.
C21_ParseCounts ==
    pj_out.kind \in {"pending", "return"} =>
        Len(pj_blocks) + Len(SelectSeq(pj_log, LAMBDA e : e # "Invalid Table element structure"))
            = pj_i - 1

\* C22 as stated: for a node tagged Table that is too short or whose head,
\* body, row or cell sub-structures are malformed, parse_table_element raises
\* nothing; the too short table gives null and one diagnostic.
C22_Original ==
    (tb_out # Pending /\ TagOf(tb_node) = "Table") =>
        /\ tb_out.kind = "return"
        /\ table_too_short(tb_node) => tb_out.value = None /\ tb_log = <<"warning">>

\* C22, the too short table alone: null, one diagnostic, nothing raised
C22_ShortTableSkipped ==
    (tb_out # Pending /\ TagOf(tb_node) = "Table" /\ table_too_short(tb_node)) =>
        tb_out = [kind |-> "return", value |-> None] /\ tb_log = <<"warning">>

\* the text after the first "]" of a text that holds one
C24_AfterMarker(text) ==
    LET k == CHOOSE j \in 1..Len(text) :
                 text[j] = "]" /\ \A h \in 1..(j - 1) : text[h] # "]"
    IN  SubSeq(text, k + 1, Len(text))

\* detect_callout returned a Callout for the node
C24_Detected == cd_out.kind = "return" /\ cd_out.value # None

\* the reduced text of the blockquote's first paragraph
C24_FirstText == extract_inline_text(GetInlines(cd_node.blocks[1]))

\* C24 as stated: title is never set, and content is the newline-join of the
\* trimmed remainder after the marker, when non-empty, and the reduced text of
\* every later paragraph child in order.
C24_Original ==
    C24_Detected =>
        LET remainder == Strip(C24_AfterMarker(C24_FirstText))
        IN  /\ cd_out.value[1].title = None
            /\ cd_out.value[1].content =
                   Join(<<"\n">>, (IF remainder # <<>> THEN <<remainder>> ELSE <<>>)
                                      \o ParaTexts(Tail(cd_node.blocks)))

\* C24, what holds: title is never set, and content is the newline-join of
\* the first line of the remainder, when non-empty after trimming, and the
\* reduced text of every later paragraph child in order.
C24_FirstLineOnly ==
    C24_Detected =>
        LET remainder == Strip(UpToNewline(LStrip(C24_AfterMarker(C24_FirstText))))
        IN  /\ cd_out.value[1].title = None
            /\ cd_out.value[1].content =
                   Join(<<"\n">>, (IF remainder # <<>> THEN <<remainder>> ELSE <<>>)
                                      \o ParaTexts(Tail(cd_node.blocks)))

\* every row of rows is a Row with a cell list
C25_RowsWellFormed(rows) ==
    \A r \in 1..Len(rows) : IsDict(rows[r]) /\ TagOf(rows[r]) = "Row" /\ "cells" \in DOMAIN rows[r]

\* a six-element table whose head and bodies have the documented shape
C25_WellFormed(node) ==
    /\ TagOf(node) = "Table" /\ ~table_too_short(node)
    /\ IsDict(node.head) /\ TagOf(node.head) = "TableHead" /\ "rows" \in DOMAIN node.head
    /\ C25_RowsWellFormed(node.head.rows)
    /\ \A b \in 1..Len(node.bodies) :
           /\ IsDict(node.bodies[b]) /\ TagOf(node.bodies[b]) = "TableBody"
           /\ "rows" \in DOMAIN node.bodies[b]
           /\ C25_RowsWellFormed(node.bodies[b].rows)

\* the number of rows of the bodies before body b
RECURSIVE C25_Offset(_, _)
C25_Offset(bodies, b) ==
    IF b = 1 THEN 0 ELSE C25_Offset(bodies, b - 1) + Len(bodies[b - 1].rows)

C26_TitleHeading ==
    LET title_el == find(db_root, "title")
    IN  IF title_el = None THEN <<>>
        ELSE add_heading(<<>>, get_full_text(title_el[1]), 1)

\* the blocks the walk emits for the top-level child k when it handles it
C26_Walked(k) ==
    LET node == db_root.kids[k]
    IN  IF node.tag \in {"info", "title"} THEN <<>>
        ELSE IF node.tag = "section" THEN walk_section(<<>>, node, 2)
        ELSE process_block_node(<<>>, node, 0)

\* the blocks that come from the top-level child k, the title's heading
\* counted as coming from the title element
C26_From(k) ==
    IF db_root.kids[k].tag = "title" /\ \A h \in 1..(k - 1) : db_root.kids[h].tag # "title"
    THEN C26_TitleHeading ELSE C26_Walked(k)

\* the blocks of the children in chosen, in the order of the children
RECURSIVE C26_InOrder(_, _, _)
C26_InOrder(chosen, k, from_title) ==
    IF k > Len(db_root.kids) THEN <<>>
    ELSE (IF k \notin chosen THEN <<>>
          ELSE IF from_title THEN C26_From(k) ELSE C26_Walked(k))
         \o C26_InOrder(chosen, k + 1, from_title)

RECURSIVE C26_ParsedPrefix(_)
C26_ParsedPrefix(n) ==
    IF n = 0 THEN <<>>
    ELSE C26_ParsedPrefix(n - 1)
             \o (IF parse_block(pj_doc[n]) = None THEN <<>> ELSE <<parse_block(pj_doc[n])[1]>>)

\* C26, parse_pandoc_json: the accumulator holds the blocks of the nodes
\* handled so far in node order, at most one per node.
C26_ParseOrder ==
    /\ pj_blocks = C26_ParsedPrefix(pj_i - 1)
    /\ Len(pj_blocks) <= pj_i - 1
    /\ pj_out.kind = "return" => pj_out.blocks = pj_blocks /\ Len(pj_blocks) <= Len(pj_doc)

\* the top-level ordered lists the preface loop handles
C27_Lists ==
    {k \in 1..Len(db_root.kids) :
        /\ db_root.kids[k].tag = "orderedlist"
        /\ \A h \in 1..k : db_root.kids[h].tag # "section"}

\* the paragraphs of a list's output that carry a number of the list itself
C27_Numbered(own) ==
    SelectSeq(own, LAMBDA b : b.text[1] \in {DigitChars[d] : d \in 1..10})

\* own is a run of consecutive blocks of the output
C27_Emitted(own) ==
    \E offset \in 0..(Len(db_out.blocks) - Len(own)) :
        SubSeq(db_out.blocks, offset + 1, offset + Len(own)) = own

\* C27 as stated, for build_blocks: an ordered list's own numbers are 1, 2,
\* ... in document order whatever nested or earlier lists do, and the list
\* hands out one number per list item.
C27_Original ==
    (db_ns /\ db_out.kind = "return") =>
        \A k \in C27_Lists :
            LET own == handle_list(<<>>, db_root.kids[k], "numbered", 0)
                numbered == C27_Numbered(own)
            IN  /\ C27_Emitted(own)
                /\ \A j \in 1..Len(numbered) :
                       SubSeq(numbered[j].text, 1, Len(Decimal(j)) + 2)
                           = Decimal(j) \o <<".", " ">>
                /\ Len(numbered) <= Len(findall(db_root.kids[k], "listitem"))

\* C27, what holds: the numbers of one list are consecutive from 1 and no
\* nested or other list changes them.
C27_CountersIndependent ==
    (db_ns /\ db_out.kind = "return") =>
        \A k \in C27_Lists :
            LET own == handle_list(<<>>, db_root.kids[k], "numbered", 0)
                numbered == C27_Numbered(own)
            IN  /\ C27_Emitted(own)
                /\ \A j \in 1..Len(numbered) :
                       SubSeq(numbered[j].text, 1, Len(Decimal(j)) + 2)
                           = Decimal(j) \o <<".", " ">>

\* the resolver was entered with the argument's target and found nothing
C23_Unresolved == im_pc = "done" /\ as_out.kind = "raise"

\* the placeholder: the original target as path, alt text and caption kept
C23_Placeholder ==
    [kind |-> "return",
     value |-> Some(Image(image_target(im_call, im_arg), image_alt(im_call, im_arg),
                          image_caption(im_call, im_arg)))]

\* C23 as stated: for a well-formed Image node or ![[name]] whose target the
\* asset resolver does not find, the parser returns the placeholder Image and
\* neither raises nor returns None.
C23_Original == C23_Unresolved => im_out = C23_Placeholder

\* C23, relative targets: a target the search exhausts gives the placeholder
\* and one warning.
C23_RelativePlaceholder ==
    (im_pc = "done" /\ as_out = Raise("FileNotFoundError")) =>
        im_out = C23_Placeholder /\ im_log = <<"Image not found">>

\* C28 as stated: under every interleaving of two runs for different
\* documents, the file /tmp/{doc_id}_ast.json a run's generate step wrote
\* still exists when that run reaches its parse step, so no run ends in
\* FileNotFoundError.
C28_Original ==
    \A r \in RpRuns :
        /\ rp_pc[r] = "parse" => rp_doc[r] \in rp_tmp
        /\ rp_out[r].kind # "raise"

\* the step is a call of on_modified
C29_Handled == wt_pc = "idle" /\ wt_queue # <<>> /\ wt_queue' = Tail(wt_queue)

\* the event handed to on_modified is a file event for the watched file
C29_Matches ==
    /\ ~Head(wt_queue).is_directory
    /\ resolve(Head(wt_queue).src_path) = wt_md

\* the last successful rebuild started less than debounce_seconds ago
C29_Recent == wt_starts # <<>> /\ wt_now - wt_starts[Len(wt_starts)] < wt_debounce

\* C29: the handler starts a rebuild only for a file event whose resolved
\* path is the watched file and only when debounce_seconds have passed since
\* the start of the last successful rebuild; the starts of two successive
\* successful rebuilds are debounce_seconds apart or more; last_rebuild_time
\* changes only when a rebuild succeeds; and an event for the watched file is
\* suppressed only by a recent successful rebuild, never by a failed one.
C29_Debounce ==
    [][ /\ (C29_Handled /\ wt_pc' = "building") => (C29_Matches /\ ~C29_Recent)
        /\ (wt_pc' = "building" /\ wt_pc = "idle") => C29_Handled
        /\ (Len(wt_starts') = 2) => (wt_starts'[2] - wt_starts'[1] >= wt_debounce)
        /\ (wt_last' # wt_last) => (wt_pc = "building" /\ wt_res' = "ok")
        /\ (C29_Handled /\ C29_Matches /\ wt_pc' = "idle") => C29_Recent
      ]_vars

\* two rebuilds succeeded, and a later event for the watched file was debounced
C29_Witness == Len(wt_starts) = 2 /\ wt_res = "debounced" /\ wt_debounce > 0

\* C30 as stated: the loop body runs safety_limit times at most; every
\* iteration that sees overflow has added one page and one frame linked
\* after the previous last frame by the time of the next check or the
\* return; and the loop stops of its own accord only at a check where
\* neither the head frame nor the last frame overflows.
C30_Original ==
    /\ of_grown <= of_limit(of_version)
    /\ of_pc \in {"check", "done"} =>
          /\ of_pages = of_first + of_grown
          /\ Len(of_chain) = 2 + of_grown \/ of_out = OfReturn("skipped")
    /\ of_out = OfReturn("complete") => ~of_head /\ ~of_tail

\* C30, the part that holds in both scripts: pages are added safety_limit
\* times at most, one page and one frame per iteration that sees overflow,
\* every frame that was linked stands at the end of the chain in the order
\* of creation, and v3 stops of its own accord only when neither frame
\* overflows.
C30_Bounded ==
    /\ of_grown <= of_limit(of_version)
    /\ of_n <= of_limit(of_version) + 1
    /\ of_pages <= of_first + of_limit(of_version)
    /\ of_pc = "check" =>
          /\ of_pages = of_first + of_grown
          /\ Len(of_chain) = 2 + of_grown
          /\ of_last = of_chain[Len(of_chain)]
          /\ \A k \in 3..Len(of_chain) : of_chain[k] = NewFrame(of_first + k - 2)
    /\ (of_version = "v3" /\ of_out = OfReturn("complete")) => ~of_head /\ ~of_tail

\* C30, termination: every call of handle_overflow comes to its end.
C30_Terminates == <>(of_pc = "done")

====
